---- MODULE Spec2Model ----
(***************************************************************************)
(* Wallet resource pool and safety control of the volume bot.              *)
(*                                                                         *)
(* Part I   CircuitBreaker (src/src/market/MarketDataProvider.js 896-1019) *)
(*          with the baseline capture of VolumeBoosterBot.init.            *)
(* Part II  WalletManager.fundSingleWallet / verifyTransaction             *)
(*          (src/src/wallet/WalletManager.js 269-463) over a chain on      *)
(*          which a submitted transfer lands, fails or expires at its own  *)
(*          pace.                                                          *)
(*                                                                         *)
(* Part III BurnerWalletManager (src/src/wallet/BurnerWalletManager.js)    *)
(*          under the run loop of VolumeBoosterBot, its disposal timers    *)
(*          and the chain.                                                 *)
(* Part IV  WalletRebalancer (src/src/wallet/WalletManager.js 648-799).    *)
(* Part V   the wallet pool of WalletManager: roster, batches, cooldowns.  *)
(* Part VI  the creation gate and the selection of BurnerWalletManager.    *)
(* Part VII getWalletCooldown as a function of the trade count.            *)
(* Part VIII the run loop of VolumeBoosterBot: runLoop,                    *)
(*          handleCircuitBreaker and stop (src/src/VolumeBoosterBot.js).   *)
(*                                                                         *)
(* Each part has its own specification (SpecBreaker; SpecFunding for       *)
(* concurrent invocations, SpecTranches for one invocation in depth;       *)
(* SpecBurner, with SpecBurnerFair and SpecBurnerLoopFair for liveness;    *)
(* SpecRebalancer; SpecPool; SpecGate; SpecCooldown; SpecOrchestrator);    *)
(* the variables of the other parts keep their initial value.              *)
(***************************************************************************)
EXTENDS Integers, Sequences, FiniteSets, TLC

VARIABLES
    \* ---- CircuitBreaker ----
    config,               \* the breaker's slice of ConfigManager (fixed after Init)
    sinkKeypair,          \* walletManager.sinkKeypair is non-null
    botState,             \* "constructed" | "running" (VolumeBoosterBot.init done)
    consecutiveFailures,  \* this.consecutiveFailures
    recentTrades,         \* this.recentTrades (TRUE = success)
    initialSinkBalance,   \* this.initialSinkBalance
    checkCounter,         \* this.checkCounter
    outcomes,             \* history: every outcome recordTradeResult recorded
    last,                 \* history: what the latest checkCircuitBreakers did
    fresh,                \* history: no outcome recorded since that invocation
    \* ---- WalletManager funding ----
    funded,               \* this.funded (pubkeys)
    fundingLocks,         \* this.fundingLocks (one key per pubkey)
    calls,                \* the fundSingleWallet invocations and their locals
    chainBalance,         \* the chain: lamports of each wallet
    txs,                  \* the chain: the transfers submitted, by signature
    \* ---- BurnerWalletManager ----
    bwcConfig,            \* the manager's slice of ConfigManager (fixed after Init)
    bwm,                  \* the BurnerWalletManager: its Maps, its Set, its stats
    burnerTasks,          \* the run loop, and the invocations and timers pending
    burnerWorld,          \* the chain (burner balances, transfers) and the clock
    burnerLog,            \* history: what happened to each burner
    \* ---- WalletRebalancer ----
    rebalanceConfig,      \* the rebalancer's slice of ConfigManager
    rebalancer,           \* the locals of the rebalanceWallets invocation
    pool,                 \* the chain: lamports of the batch wallets and of the sink
    rebalanceLog,         \* history: starting balances, pairings, failures
    \* ---- WalletManager pool ----
    poolConfig,           \* the pool's slice of ConfigManager (batchSize is rescaled)
    walletFile,           \* the wallet file (config.walletFile)
    wm,                   \* the WalletManager: roster, cooldowns, trade counts
    poolClock,            \* Date.now()
    poolTasks,            \* the run loop and the wallet cycles of its batch
    poolLog,              \* history: the file loaded, the latest selections
    \* ---- BurnerWalletManager creation gate and selection ----
    gateConfig,           \* the slice of ConfigManager the gate and the selection read
    creation,             \* lastCreationCheck, consecutiveFundingFailures, creationPausedUntil
    gateTasks,            \* the ensureMinimumBurners invocation, the burners in a cycle
    gateClock,            \* Date.now()
    gateLog,              \* history: what the step just taken did
    \* ---- getWalletCooldown ----
    cooldownCall,         \* two trade counts, a base cooldown, the cooldowns returned
    \* ---- VolumeBoosterBot run loop ----
    botConfig,            \* the slice of ConfigManager the loop reads, the wallet file's shape
    bot                   \* where runLoop and stop are, isRunning, cycleCount, history

breakerVars == <<config, sinkKeypair, botState, consecutiveFailures, recentTrades,
                 initialSinkBalance, checkCounter, outcomes, last, fresh>>

fundingVars == <<funded, fundingLocks, calls, chainBalance, txs>>

burnerVars == <<bwcConfig, bwm, burnerTasks, burnerWorld, burnerLog>>

rebalancerVars == <<rebalanceConfig, rebalancer, pool, rebalanceLog>>

poolVars == <<poolConfig, walletFile, wm, poolClock, poolTasks, poolLog>>

gateVars == <<gateConfig, creation, gateTasks, gateClock, gateLog>>

cooldownVars == <<cooldownCall>>

orchestratorVars == <<botConfig, bot>>

vars == <<breakerVars, fundingVars, burnerVars, rebalancerVars, poolVars, gateVars, cooldownVars, orchestratorVars>>

(***************************************************************************)
(* Bounds of the exploration.                                              *)
(***************************************************************************)
MaxOutcomes == 7     \* outcomes recorded in one behaviour
MaxChecks == 5       \* drawdown checks counted in one behaviour
NumCalls == 2        \* concurrent fundSingleWallet invocations (SpecFunding)
MaxLockTxs == 1      \* transfers submitted in one behaviour of SpecFunding
MaxTxs == 4          \* transfers submitted in one behaviour of SpecTranches
MaxBurners == 2      \* burner keypairs generated in one behaviour
BatchSize == 3       \* wallets of the batch that is rebalanced (2..BatchSize)
MaxPersisted == 2    \* records of the wallet file that init loads
MaxPoolTicks == 3    \* quarters of an hour that pass one by one in a behaviour
MaxGateIntervals == 5 \* creation intervals that pass on the clock of the gate
MaxGateCreated == 2  \* burners that ensureMinimumBurners creates and funds
MaxCount == 2        \* burners asked of getAvailableBurners in one call
MaxTradeCount == 10  \* trades a wallet has made when its cooldown is asked for
MaxCycles == 2       \* batches that the run loop processes in one behaviour
MaxBatchTrades == 2  \* trade outcomes that the cycles of one batch record

(***************************************************************************)
(* Part I: CircuitBreaker                                                  *)
(***************************************************************************)
SINK_BALANCE_CHECK_INTERVAL == 5

\* MAX_CONSECUTIVE_FAILURES (1..100), FAILURE_RATE_WINDOW (5..100),
\* MAX_FAILURE_RATE_PCT and EMERGENCY_STOP_LOSS_PCT (0..100, stored / 100):
\* the values explored.  Percentages are kept as integers: the failure rate
\* in percent, the stop loss in basis points (percent * 100).
ConfigChoices ==
    [ enableCircuitBreaker   : BOOLEAN,
      maxConsecutiveFailures : {2, 3},
      failureRateWindow      : {5},
      maxFailureRatePct      : {50, 80},
      emergencyStopLossBps   : {3000} ]

\* Lamport balances of the sink account: at startup, and when queried later.
Baselines == {0, 7, 100000}
Balances == {4, 5, 69989, 69999, 120000}

\* BigInt division truncates toward zero.
BigIntDiv(a, b) == IF a >= 0 THEN a \div b ELSE -((-a) \div b)

NoCheck == [tripped |-> FALSE, reason |-> "", checks |-> 0, queried |-> FALSE,
            current |-> -1]

\* ENABLE_CIRCUIT_BREAKER, MAX_CONSECUTIVE_FAILURES = 3, FAILURE_RATE_WINDOW = 5,
\* MAX_FAILURE_RATE_PCT = 50, EMERGENCY_STOP_LOSS_PCT = 30
DefaultConfig ==
    [enableCircuitBreaker |-> TRUE, maxConsecutiveFailures |-> 3,
     failureRateWindow |-> 5, maxFailureRatePct |-> 50,
     emergencyStopLossBps |-> 3000]

\* VolumeBoosterBot.init: the baseline is read once, before runLoop starts.
BotInit ==
    /\ botState = "constructed"
    /\ botState' = "running"
    /\ \E balance \in Baselines :
          initialSinkBalance' = IF sinkKeypair THEN balance ELSE initialSinkBalance
    /\ UNCHANGED <<config, sinkKeypair, consecutiveFailures, recentTrades,
                   checkCounter, outcomes, last, fresh>>
    /\ UNCHANGED <<fundingVars, burnerVars, rebalancerVars, poolVars, gateVars, cooldownVars, orchestratorVars>>

\* Mutant: the window is never shifted.
PushRecentTrades_NoShift(success) == Append(recentTrades, success)

\* recordTradeResult: push, then shift when the window is exceeded.
PushRecentTrades(success) ==
    LET pushed == Append(recentTrades, success)
    IN  IF Len(pushed) > config.failureRateWindow THEN Tail(pushed) ELSE pushed

\* Mutant: a success does not reset the streak.
NextConsecutiveFailures_NoReset(success) ==
    IF success THEN consecutiveFailures ELSE consecutiveFailures + 1

\* recordTradeResult: the streak.
NextConsecutiveFailures(success) ==
    IF success THEN 0 ELSE consecutiveFailures + 1

recordTradeResult(success) ==
    /\ botState = "running"
    /\ Len(outcomes) < MaxOutcomes
    /\ IF ~config.enableCircuitBreaker
         THEN UNCHANGED <<recentTrades, consecutiveFailures, outcomes, fresh>>
         ELSE /\ recentTrades' = PushRecentTrades(success)
              /\ consecutiveFailures' = NextConsecutiveFailures(success)
              /\ outcomes' = Append(outcomes, success)
              /\ fresh' = FALSE
    /\ UNCHANGED <<config, sinkKeypair, botState, initialSinkBalance, checkCounter, last>>
    /\ UNCHANGED <<fundingVars, burnerVars, rebalancerVars, poolVars, gateVars, cooldownVars, orchestratorVars>>

\* Mutant: the streak has to exceed the maximum.
checkConsecutiveFailures_Strict ==
    IF consecutiveFailures > config.maxConsecutiveFailures
      THEN [tripped |-> TRUE, reason |-> "consecutive failures"]
      ELSE [tripped |-> FALSE, reason |-> ""]

checkConsecutiveFailures ==
    IF consecutiveFailures >= config.maxConsecutiveFailures
      THEN [tripped |-> TRUE, reason |-> "consecutive failures"]
      ELSE [tripped |-> FALSE, reason |-> ""]

WindowFailures == Cardinality({i \in 1..Len(recentTrades) : ~recentTrades[i]})

\* failures / length > maxFailureRate, with maxFailureRate = pct / 100.
checkFailureRate ==
    IF /\ Len(recentTrades) >= config.failureRateWindow
       /\ WindowFailures * 100 > config.maxFailureRatePct * Len(recentTrades)
      THEN [tripped |-> TRUE, reason |-> "failure rate"]
      ELSE [tripped |-> FALSE, reason |-> ""]

\* Mutant: the balance is queried on every invocation.
QueriesBalance_Unthrottled(counter) ==
    /\ sinkKeypair
    /\ initialSinkBalance > 0

\* checkEmergencyStopLoss: the throttle, on the counter already incremented.
\* (The later initialSinkBalance <= 0 test is dead under this guard.)
QueriesBalance(counter) ==
    /\ sinkKeypair
    /\ initialSinkBalance > 0
    /\ counter % SINK_BALANCE_CHECK_INTERVAL = 0

\* checkEmergencyStopLoss: lossPercent, in basis points.
LossBps(current) ==
    BigIntDiv((initialSinkBalance - current) * 10000, initialSinkBalance)

\* Number(lossPercent) / 10000 > emergencyStopLoss
StopLossExceeded(current) == LossBps(current) > config.emergencyStopLossBps

checkEmergencyStopLoss(current) ==
    LET counter == checkCounter + 1
        queried == QueriesBalance(counter)
        tripped == queried /\ StopLossExceeded(current)
    IN  [tripped |-> tripped,
         reason  |-> IF tripped THEN "stop loss" ELSE "",
         counter |-> counter,
         queried |-> queried,
         current |-> IF queried THEN current ELSE -1]

\* Mutant: all three checks are run before the first tripped one is returned.
RunChecks_NoShortCircuit(current) ==
    LET r == checkEmergencyStopLoss(current)
    IN  IF ~config.enableCircuitBreaker
          THEN [tripped |-> FALSE, reason |-> "", checks |-> 0, queried |-> FALSE,
                current |-> -1, counter |-> checkCounter]
        ELSE IF checkConsecutiveFailures.tripped
          THEN [tripped |-> TRUE, reason |-> checkConsecutiveFailures.reason,
                checks |-> 1, queried |-> r.queried, current |-> r.current,
                counter |-> r.counter]
        ELSE IF checkFailureRate.tripped
          THEN [tripped |-> TRUE, reason |-> checkFailureRate.reason, checks |-> 2,
                queried |-> r.queried, current |-> r.current, counter |-> r.counter]
        ELSE [tripped |-> r.tripped, reason |-> r.reason, checks |-> 3,
              queried |-> r.queried, current |-> r.current, counter |-> r.counter]

\* checkCircuitBreakers: the checks in order, returning at the first that
\* trips.  `checks` is how many were called, `counter` the checkCounter left.
RunChecks(current) ==
    IF ~config.enableCircuitBreaker
      THEN [tripped |-> FALSE, reason |-> "", checks |-> 0, queried |-> FALSE,
            current |-> -1, counter |-> checkCounter]
    ELSE IF checkConsecutiveFailures.tripped
      THEN [tripped |-> TRUE, reason |-> checkConsecutiveFailures.reason, checks |-> 1,
            queried |-> FALSE, current |-> -1, counter |-> checkCounter]
    ELSE IF checkFailureRate.tripped
      THEN [tripped |-> TRUE, reason |-> checkFailureRate.reason, checks |-> 2,
            queried |-> FALSE, current |-> -1, counter |-> checkCounter]
    ELSE LET r == checkEmergencyStopLoss(current)
         IN  [tripped |-> r.tripped, reason |-> r.reason, checks |-> 3,
              queried |-> r.queried, current |-> r.current, counter |-> r.counter]

\* One invocation.  Its only suspension is the balance query, and its only
\* caller (handleCircuitBreaker) awaits it before a batch is started, so no
\* outcome is recorded while it runs: it is one step.
checkCircuitBreakers ==
    /\ botState = "running"
    /\ checkCounter < MaxChecks
    /\ \E current \in Balances :
          LET r == RunChecks(current)
          IN  /\ checkCounter' = r.counter
              /\ last' = [tripped |-> r.tripped, reason |-> r.reason, checks |-> r.checks,
                          queried |-> r.queried, current |-> r.current]
    /\ fresh' = TRUE
    /\ UNCHANGED <<config, sinkKeypair, botState, consecutiveFailures, recentTrades,
                   initialSinkBalance, outcomes>>
    /\ UNCHANGED <<fundingVars, burnerVars, rebalancerVars, poolVars, gateVars, cooldownVars, orchestratorVars>>

RecordSuccess == recordTradeResult(TRUE)
RecordFailure == recordTradeResult(FALSE)

NextBreaker ==
    \/ BotInit
    \/ RecordSuccess
    \/ RecordFailure
    \/ checkCircuitBreakers


(***************************************************************************)
(* Part II: WalletManager funding                                          *)
(***************************************************************************)
Wallets == {"w1", "w2"}
Calls == 1..NumCalls

FundAmount == 1000000              \* config.fundAmount: FUND_AMOUNT = 0.001 SOL
MIN_SOL_BUFFER_LAMPORTS == 5000
maxRetries == 2

\* fundAmountLamports * 8 / 10
FundedThreshold == (FundAmount * 8) \div 10

\* Balances a wallet is found with: empty, partly funded, already funded.
StartBalances == {0, 200000, 900000}

\* Math.floor(Math.random() * 4) + 1 gives 1..4: the part counts explored.
PartsChoices == {1, 2}

\* Math.floor((0.6 + Math.random() * 0.8) * 1000) gives 600..1399: the ends.
Factors == {600, 1399}

Max(a, b) == IF a >= b THEN a ELSE b
Min(a, b) == IF a <= b THEN a ELSE b

IdleCall == [pc |-> "idle", wallet |-> "", balanceBN |-> 0, remaining |-> 0,
             parts |-> 0, p |-> 0, retry |-> 0, cappedPart |-> 0,
             priorBalance |-> 0, sig |-> 0, submitBalance |-> 0,
             outcome |-> ""]

\* An invocation that has returned: its locals are gone, how it left is kept
\* ("skipped" 318, "funded" 337, "completed" 442, "threw" 443-445).
Returned(pubkey, how) == [IdleCall EXCEPT !.pc = "done", !.wallet = pubkey, !.outcome = how]

\* calculateFundingPart, with the random factor as an argument
calculateFundingPart(remaining, remainingParts, factor) ==
    LET basePart == ((remaining * factor) \div 1000) \div remainingParts
        partNum  == Max(basePart, MIN_SOL_BUFFER_LAMPORTS)
    IN  Min(partNum, remaining)

\* Mutant: the lock is not looked at.
MayFund_IgnoresLock(pubkey) == pubkey \notin funded

\* fundSingleWallet 317: neither funded nor being funded
MayFund(pubkey) == pubkey \notin funded /\ pubkey \notin fundingLocks

\* Mutant: the lock is deleted at the end of the try block, not in a finally.
ReleaseLock_NotOnThrow(pubkey, exit) ==
    IF exit = "threw" THEN fundingLocks ELSE fundingLocks \ {pubkey}

\* fundSingleWallet 446-449: the finally block, on each way out
\* ("funded": the early return, "completed": all parts attempted, "threw")
ReleaseLock(pubkey, exit) == fundingLocks \ {pubkey}

\* fundSingleWallet 361
PriorBalance(balanceBN, remaining) == balanceBN + FundAmount - remaining

\* verifyTransaction 286-296: the balance increase within 1% of the expected
VerifiedByBalance(currentBalance, expectedIncrease, priorBalance) ==
    LET increase   == currentBalance - priorBalance
        lowerBound == (expectedIncrease * 99) \div 100
        upperBound == (expectedIncrease * 101) \div 100
    IN  increase >= lowerBound /\ increase <= upperBound

\* fundSingleWallet 312-321: up to the first await
FundStart(c, w) ==
    /\ calls[c].pc = "idle"
    /\ IF MayFund(w)
         THEN /\ fundingLocks' = fundingLocks \cup {w}
              /\ calls' = [calls EXCEPT ![c] = [@ EXCEPT !.pc = "getBalance", !.wallet = w]]
         ELSE /\ calls' = [calls EXCEPT ![c] = Returned(w, "skipped")]
              /\ UNCHANGED fundingLocks
    /\ UNCHANGED <<funded, chainBalance, txs>>
    /\ UNCHANGED <<breakerVars, burnerVars, rebalancerVars, poolVars, gateVars, cooldownVars, orchestratorVars>>

\* The head of the part loop (344), entered with r.p and r.remaining set:
\* the next part is sized and its first send awaited, or the wallet is marked
\* funded (442) and the lock released.
PartLoop(c, r) ==
    IF r.p < r.parts /\ r.remaining > MIN_SOL_BUFFER_LAMPORTS
      THEN /\ \E factor \in Factors :
                calls' = [calls EXCEPT ![c] =
                            [r EXCEPT !.pc = "send", !.retry = 0,
                                      !.cappedPart = calculateFundingPart(
                                           r.remaining, r.parts - r.p, factor)]]
           /\ UNCHANGED <<funded, fundingLocks>>
      ELSE /\ calls' = [calls EXCEPT ![c] = Returned(r.wallet, "completed")]
           /\ funded' = funded \cup {r.wallet}
           /\ fundingLocks' = ReleaseLock(r.wallet, "completed")

\* 411-413: the part was confirmed or verified
PartSucceeded(c, r) ==
    PartLoop(c, [r EXCEPT !.remaining = r.remaining - r.cappedPart, !.p = r.p + 1])

\* 414-435: the attempt did not succeed; back off and retry, or give the part up
RetryOrGiveUp_CountsPart(c, r) ==
    IF r.retry < maxRetries
      THEN /\ calls' = [calls EXCEPT ![c] = [r EXCEPT !.pc = "send", !.retry = r.retry + 1]]
           /\ UNCHANGED <<funded, fundingLocks>>
      ELSE PartLoop(c, [r EXCEPT !.remaining = r.remaining - r.cappedPart, !.p = r.p + 1])

RetryOrGiveUp(c, r) ==
    IF r.retry < maxRetries
      THEN /\ calls' = [calls EXCEPT ![c] = [r EXCEPT !.pc = "send", !.retry = r.retry + 1]]
           /\ UNCHANGED <<funded, fundingLocks>>
      ELSE PartLoop(c, [r EXCEPT !.p = r.p + 1])

\* 327-345: getBalance resolves with the chain's balance
FundBalanceRead(c) ==
    LET r == calls[c]
        balanceBN == chainBalance[r.wallet]
    IN  /\ r.pc = "getBalance"
        /\ IF balanceBN >= FundedThreshold
             THEN /\ calls' = [calls EXCEPT ![c] = Returned(r.wallet, "funded")]
                  /\ funded' = funded \cup {r.wallet}
                  /\ fundingLocks' = ReleaseLock(r.wallet, "funded")
             ELSE \E parts \in PartsChoices :
                     PartLoop(c, [r EXCEPT !.balanceBN = balanceBN,
                                           !.remaining = FundAmount - balanceBN,
                                           !.parts = parts, !.p = 0])
        /\ UNCHANGED <<chainBalance, txs>>
        /\ UNCHANGED <<breakerVars, burnerVars, rebalancerVars, poolVars, gateVars, cooldownVars, orchestratorVars>>

\* 327, 443-449: getBalance rejects; the outer catch, then finally
FundBalanceThrows(c) ==
    LET r == calls[c]
    IN  /\ r.pc = "getBalance"
        /\ calls' = [calls EXCEPT ![c] = Returned(r.wallet, "threw")]
        /\ fundingLocks' = ReleaseLock(r.wallet, "threw")
        /\ UNCHANGED <<funded, chainBalance, txs>>
        /\ UNCHANGED <<breakerVars, burnerVars, rebalancerVars, poolVars, gateVars, cooldownVars, orchestratorVars>>

\* 352-362: the transfer is submitted and its signature returned
FundSend(c, cap) ==
    LET r == calls[c]
    IN  /\ r.pc = "send"
        /\ Len(txs) < cap
        /\ txs' = Append(txs, [to |-> r.wallet, lamports |-> r.cappedPart, call |-> c,
                               part |-> r.p, status |-> "pending"])
        /\ calls' = [calls EXCEPT ![c] =
                       [r EXCEPT !.pc = "confirm", !.sig = Len(txs) + 1,
                                 !.priorBalance = PriorBalance(r.balanceBN, r.remaining),
                                 !.submitBalance = chainBalance[r.wallet]]]
        /\ UNCHANGED <<funded, fundingLocks, chainBalance>>
        /\ UNCHANGED <<breakerVars, burnerVars, rebalancerVars, poolVars, gateVars, cooldownVars, orchestratorVars>>

\* 362, 420-435: sendTransaction rejects, nothing was submitted
FundSendThrows(c) ==
    LET r == calls[c]
    IN  /\ r.pc = "send"
        /\ RetryOrGiveUp(c, r)
        /\ UNCHANGED <<chainBalance, txs>>
        /\ UNCHANGED <<breakerVars, burnerVars, rebalancerVars, poolVars, gateVars, cooldownVars, orchestratorVars>>

\* 371-373: confirmTransaction resolves: the transfer landed
FundConfirmed(c) ==
    LET r == calls[c]
    IN  /\ r.pc = "confirm"
        /\ txs[r.sig].status = "landed"
        /\ PartSucceeded(c, r)
        /\ UNCHANGED <<chainBalance, txs>>
        /\ UNCHANGED <<breakerVars, burnerVars, rebalancerVars, poolVars, gateVars, cooldownVars, orchestratorVars>>

\* 374-382: confirmTransaction rejects with "not confirmed": verification starts
FundConfirmTimeout(c) ==
    LET r == calls[c]
    IN  /\ r.pc = "confirm"
        /\ calls' = [calls EXCEPT ![c] = [r EXCEPT !.pc = "status"]]
        /\ UNCHANGED <<funded, fundingLocks, chainBalance, txs>>
        /\ UNCHANGED <<breakerVars, burnerVars, rebalancerVars, poolVars, gateVars, cooldownVars, orchestratorVars>>

\* 404-407, 420-435: confirmTransaction rejects otherwise (the transfer failed)
FundConfirmThrows(c) ==
    LET r == calls[c]
    IN  /\ r.pc = "confirm"
        /\ txs[r.sig].status = "failed"
        /\ RetryOrGiveUp(c, r)
        /\ UNCHANGED <<chainBalance, txs>>
        /\ UNCHANGED <<breakerVars, burnerVars, rebalancerVars, poolVars, gateVars, cooldownVars, orchestratorVars>>

\* verifyTransaction 272-282: the status is confirmed or finalized
VerifyStatusConfirmed(c) ==
    LET r == calls[c]
    IN  /\ r.pc = "status"
        /\ txs[r.sig].status \in {"landed", "failed"}
        /\ IF txs[r.sig].status = "landed"
             THEN PartSucceeded(c, r)       \* 'success'
             ELSE RetryOrGiveUp(c, r)       \* 'failed'
        /\ UNCHANGED <<chainBalance, txs>>
        /\ UNCHANGED <<breakerVars, burnerVars, rebalancerVars, poolVars, gateVars, cooldownVars, orchestratorVars>>

\* verifyTransaction 272-286: no confirmed status yet (whatever the transfer's
\* state: the status of a landed transfer may lag); the balance is asked for
VerifyStatusUnclear(c) ==
    LET r == calls[c]
    IN  /\ r.pc = "status"
        /\ calls' = [calls EXCEPT ![c] = [r EXCEPT !.pc = "verifyBalance"]]
        /\ UNCHANGED <<funded, fundingLocks, chainBalance, txs>>
        /\ UNCHANGED <<breakerVars, burnerVars, rebalancerVars, poolVars, gateVars, cooldownVars, orchestratorVars>>

\* verifyTransaction 286-301: getBalance resolves; 'success' or 'unknown'
VerifyBalanceRead(c) ==
    LET r == calls[c]
    IN  /\ r.pc = "verifyBalance"
        /\ IF VerifiedByBalance(chainBalance[r.wallet], r.cappedPart, r.priorBalance)
             THEN PartSucceeded(c, r)
             ELSE RetryOrGiveUp(c, r)
        /\ UNCHANGED <<chainBalance, txs>>
        /\ UNCHANGED <<breakerVars, burnerVars, rebalancerVars, poolVars, gateVars, cooldownVars, orchestratorVars>>

\* verifyTransaction 297-305: getSignatureStatus or getBalance rejects: 'unknown'
VerifyThrows(c) ==
    LET r == calls[c]
    IN  /\ r.pc \in {"status", "verifyBalance"}
        /\ RetryOrGiveUp(c, r)
        /\ UNCHANGED <<chainBalance, txs>>
        /\ UNCHANGED <<breakerVars, burnerVars, rebalancerVars, poolVars, gateVars, cooldownVars, orchestratorVars>>

\* The chain: a pending transfer lands and credits the recipient ...
TxLands(i) ==
    /\ txs[i].status = "pending"
    /\ txs' = [txs EXCEPT ![i].status = "landed"]
    /\ chainBalance' = [chainBalance EXCEPT ![txs[i].to] = @ + txs[i].lamports]
    /\ UNCHANGED <<funded, fundingLocks, calls>>
    /\ UNCHANGED <<breakerVars, burnerVars, rebalancerVars, poolVars, gateVars, cooldownVars, orchestratorVars>>

\* ... or is executed and fails (a pending transfer may also never resolve).
TxFails(i) ==
    /\ txs[i].status = "pending"
    /\ txs' = [txs EXCEPT ![i].status = "failed"]
    /\ UNCHANGED <<funded, fundingLocks, calls, chainBalance>>
    /\ UNCHANGED <<breakerVars, burnerVars, rebalancerVars, poolVars, gateVars, cooldownVars, orchestratorVars>>

\* The steps of the invocations cs over the wallets ws and of the chain, with
\* at most cap transfers submitted.
NextFundingOf(cs, ws, cap) ==
    \/ \E c \in cs, w \in ws : FundStart(c, w)
    \/ \E c \in cs : FundBalanceRead(c)
    \/ \E c \in cs : FundBalanceThrows(c)
    \/ \E c \in cs : FundSend(c, cap)
    \/ \E c \in cs : FundSendThrows(c)
    \/ \E c \in cs : FundConfirmed(c)
    \/ \E c \in cs : FundConfirmTimeout(c)
    \/ \E c \in cs : FundConfirmThrows(c)
    \/ \E c \in cs : VerifyStatusConfirmed(c)
    \/ \E c \in cs : VerifyStatusUnclear(c)
    \/ \E c \in cs : VerifyBalanceRead(c)
    \/ \E c \in cs : VerifyThrows(c)
    \/ \E i \in 1..Len(txs) : TxLands(i)
    \/ \E i \in 1..Len(txs) : TxFails(i)

\* Concurrent invocations over the roster: the lock.
NextFunding == NextFundingOf(Calls, Wallets, MaxLockTxs)

\* One invocation on one wallet, in depth: the parts, retries and verification.
NextTranches == NextFundingOf({1}, {"w1"}, MaxTxs)

(***************************************************************************)
(* Part III: BurnerWalletManager                                           *)
(*                                                                         *)
(* The manager is the record bwm.  It is driven by the run loop of         *)
(* VolumeBoosterBot (one step at a time: createBurnerWallet from           *)
(* ensureMinimumBurners, getAvailableBurners, the wallet cycles of one     *)
(* batch, stop), by the disposal timers of scheduleBurnerDisposal and by   *)
(* the chain, on which a submitted transfer lands or fails at its own      *)
(* pace.  Amounts are counted in thousandths of a SOL.                     *)
(***************************************************************************)
Burners == 1..MaxBurners

Origins == {"timer", "emergency"}

\* BWC_BURNER_LIFETIME_TXS (1..50), NUM_ACTIONS_PER_CYCLE (1..10),
\* ENABLE_BURNER_SEASONING, BWC_MAX_BURNER_WALLETS (1..1000): the values explored.
BwcConfigChoices ==
    [ bwcBurnerLifetimeTxs   : {2, 3},
      numActionsPerCycle     : {2},
      enableBurnerSeasoning  : BOOLEAN,
      burnerSeasoningMinTxs  : {1},
      bwcMaxBurnerWallets    : {2} ]

\* The lifetime that one cycle of numActionsPerCycle = 2 actions reaches.
ShortLifetime == 2

DefaultBwcConfig ==
    [ bwcBurnerLifetimeTxs   |-> 3,
      numActionsPerCycle     |-> 2,
      enableBurnerSeasoning  |-> FALSE,
      burnerSeasoningMinTxs  |-> 1,
      bwcMaxBurnerWallets    |-> 2 ]

\* bwcBurnerFundAmount (0.02 SOL) and bwcMinBurnerBalance (0.001 SOL).
BurnerFundAmount == 20
MinBurnerBalance == 1

\* cleanupBurners: the values above which the counts are cut back.
TRADE_COUNT_TRIM == 100
SEASONING_COUNT_TRIM == 20

\* The Maps of the manager are functions on the keys they hold.
MapGet(m, k, default) == IF k \in DOMAIN m THEN m[k] ELSE default

MapSet(m, k, v) == [x \in (DOMAIN m) \cup {k} |-> IF x = k THEN v ELSE m[x]]

MapDelete(m, ks) == [x \in (DOMAIN m) \ ks |-> m[x]]

EmptyMap == [x \in {} |-> 0]

\* The manager after its constructor.  burnerCooldowns holds 0 for a burner
\* never used (the timestamp 0 of createBurnerWallet) and 1 for a time of use.
NewBurnerWalletManager ==
    [ burnerWallets        |-> {},
      burnerCooldowns      |-> EmptyMap,
      burnerTradeCount     |-> EmptyMap,
      burnerSeasoningCount |-> EmptyMap,
      pendingDisposal      |-> {},
      stats                |-> [created |-> 0, disposed |-> 0] ]

NoTask == [pc |-> "none", amount |-> 0, tx |-> "none"]

\* Nothing is running: the run loop is at its top.
IdleTasks ==
    [ loop      |-> "top",
      create    |-> [pc |-> "none", pubkey |-> 0],
      batch     |-> {},
      timers    |-> {},
      disposals |-> [b \in Burners |-> [o \in Origins |-> NoTask]] ]

\* The chain and the clock: the lamports of each burner, its funding
\* transfer, and the burners created more than 24 hours ago.
FreshWorld ==
    [ balance |-> [b \in Burners |-> 0],
      fundTx  |-> [b \in Burners |-> "none"],
      aged    |-> {} ]

\* The history of each burner: how createBurnerWallet ended for it, how the
\* confirmation wait of its funding ended, whether markBurnerUsed counted a
\* use of it, and stats.created before the latest createBurnerWallet.
EmptyLog ==
    [ generated     |-> 0,
      outcome       |-> [b \in Burners |-> "none"],
      confirm       |-> [b \in Burners |-> "none"],
      used          |-> {},
      createdBefore |-> 0 ]

\* getActiveBurnerCount
getActiveBurnerCount(m) == Cardinality(m.burnerWallets \ m.pendingDisposal)

\* scheduleBurnerDisposal: the manager afterwards (the timer is set by the
\* action that calls it).
SchedulesDisposal(m, pubkey) ==
    pubkey \in m.burnerWallets /\ pubkey \notin m.pendingDisposal

scheduleBurnerDisposal(m, pubkey) ==
    IF SchedulesDisposal(m, pubkey)
    THEN [m EXCEPT !.pendingDisposal = @ \cup {pubkey}]
    ELSE m

\* markBurnerSeasoningProgress
markBurnerSeasoningProgress(m, pubkey, txCount) ==
    IF ~bwcConfig.enableBurnerSeasoning THEN m
    ELSE [m EXCEPT !.burnerSeasoningCount =
              MapSet(@, pubkey, MapGet(@, pubkey, 0) + txCount)]

\* The lifetime count at which markBurnerUsed schedules the disposal.
LifetimeReached_Strict(newCount) == newCount > bwcConfig.bwcBurnerLifetimeTxs

LifetimeReached(newCount) == newCount >= bwcConfig.bwcBurnerLifetimeTxs

\* markBurnerUsed(pubkey, txCount)
markBurnerUsed(m, pubkey, txCount) ==
    IF pubkey \notin m.burnerWallets THEN m
    ELSE LET newCount == MapGet(m.burnerTradeCount, pubkey, 0) + txCount
             counted  == [m EXCEPT !.burnerTradeCount = MapSet(@, pubkey, newCount),
                                   !.burnerCooldowns  = MapSet(@, pubkey, 1)]
             seasoned == markBurnerSeasoningProgress(counted, pubkey, txCount)
         IN  IF LifetimeReached(newCount)
             THEN scheduleBurnerDisposal(seasoned, pubkey)
             ELSE seasoned

\* The five structures without the entries of the pubkeys ks
\* (disposeBurnerWallet 710-714, cleanupBurners 814-818).
DeleteRecords_KeepPending(m, ks) ==
    [m EXCEPT !.burnerWallets        = @ \ ks,
              !.burnerCooldowns      = MapDelete(@, ks),
              !.burnerTradeCount     = MapDelete(@, ks),
              !.burnerSeasoningCount = MapDelete(@, ks)]

DeleteRecords(m, ks) ==
    [m EXCEPT !.burnerWallets        = @ \ ks,
              !.burnerCooldowns      = MapDelete(@, ks),
              !.burnerTradeCount     = MapDelete(@, ks),
              !.burnerSeasoningCount = MapDelete(@, ks),
              !.pendingDisposal      = @ \ ks]

\* cleanupBurners(now): the burners older than 24 hours are dropped, the
\* cooldown entries older than an hour (those of the timestamp 0, and the
\* uses `stale` by now) are dropped, the counts are trimmed.
cleanupBurners(m, aged, stale) ==
    LET kept == DeleteRecords(m, m.burnerWallets \cap aged)
        cd   == kept.burnerCooldowns
        tc   == kept.burnerTradeCount
        sc   == kept.burnerSeasoningCount
    IN  [kept EXCEPT
            !.burnerCooldowns      = MapDelete(cd, {b \in DOMAIN cd : cd[b] = 0} \cup stale),
            !.burnerTradeCount     = [b \in DOMAIN tc |->
                                         IF tc[b] > TRADE_COUNT_TRIM
                                         THEN TRADE_COUNT_TRIM ELSE tc[b]],
            !.burnerSeasoningCount = [b \in DOMAIN sc |->
                                         IF sc[b] > SEASONING_COUNT_TRIM
                                         THEN SEASONING_COUNT_TRIM ELSE sc[b]]]

\* getAvailableBurners 203-228 apart from the cooldown test: the burners that
\* are not pending disposal, within their lifetime and seasoned.
Eligible(m) ==
    {b \in m.burnerWallets \ m.pendingDisposal :
        /\ MapGet(m.burnerTradeCount, b, 0) < bwcConfig.bwcBurnerLifetimeTxs
        /\ \/ ~bwcConfig.enableBurnerSeasoning
           \/ MapGet(m.burnerSeasoningCount, b, 0) >= bwcConfig.burnerSeasoningMinTxs}

\* createBurnerWallet 389-403: a fresh keypair enters the structures.
InsertBurner(m, pubkey) ==
    [m EXCEPT !.burnerWallets    = @ \cup {pubkey},
              !.burnerTradeCount = MapSet(@, pubkey, 0),
              !.burnerCooldowns  = MapSet(@, pubkey, 0),
              !.stats.created    = @ + 1]

\* createBurnerWallet 415-419: the burner whose funding failed is removed.
RemoveUnfunded_KeepsCount(m, pubkey) ==
    [m EXCEPT !.burnerWallets    = @ \ {pubkey},
              !.burnerTradeCount = MapDelete(@, {pubkey}),
              !.burnerCooldowns  = MapDelete(@, {pubkey})]

RemoveUnfunded(m, pubkey) ==
    [m EXCEPT !.burnerWallets    = @ \ {pubkey},
              !.burnerTradeCount = MapDelete(@, {pubkey}),
              !.burnerCooldowns  = MapDelete(@, {pubkey}),
              !.stats.created    = @ - 1]

\* ---- createBurnerWallet / fundBurnerWallet ----

\* ensureMinimumBurners 291-322 calls createBurnerWallet while the pool is
\* below its target; the keypair is generated and tracked, and
\* fundBurnerWallet starts looking for a relayer.
CreateStart ==
    /\ burnerTasks.loop = "top"
    /\ getActiveBurnerCount(bwm) < bwcConfig.bwcMaxBurnerWallets
    /\ burnerLog.generated < MaxBurners
    /\ LET pubkey == burnerLog.generated + 1 IN
        /\ bwm' = InsertBurner(bwm, pubkey)
        /\ burnerTasks' = [burnerTasks EXCEPT !.loop = "creating",
                               !.create = [pc |-> "fund", pubkey |-> pubkey]]
        /\ burnerLog' = [burnerLog EXCEPT !.generated = pubkey,
                               !.createdBefore = bwm.stats.created]
    /\ UNCHANGED burnerWorld
    /\ UNCHANGED <<bwcConfig, breakerVars, fundingVars, rebalancerVars, poolVars, gateVars, cooldownVars, orchestratorVars>>

\* fundBurnerWallet returned false: createBurnerWallet removes the burner.
CreateFails ==
    LET pubkey == burnerTasks.create.pubkey IN
    /\ bwm' = RemoveUnfunded(bwm, pubkey)
    /\ burnerTasks' = [burnerTasks EXCEPT !.loop = "top",
                           !.create = [pc |-> "none", pubkey |-> 0]]
    /\ burnerLog' = [burnerLog EXCEPT !.outcome[pubkey] = "failed"]

\* fundBurnerWallet returned true: the burner stays in the pool.
CreateSucceeds(confirmation) ==
    LET pubkey == burnerTasks.create.pubkey IN
    /\ bwm' = bwm
    /\ burnerTasks' = [burnerTasks EXCEPT !.loop = "top",
                           !.create = [pc |-> "none", pubkey |-> 0]]
    /\ burnerLog' = [burnerLog EXCEPT !.outcome[pubkey] = "active",
                           !.confirm[pubkey] = confirmation]

\* No relayer can pay (493-509, 522-530) or a balance query rejects (481).
FundRefused ==
    /\ burnerTasks.create.pc = "fund"
    /\ CreateFails
    /\ UNCHANGED burnerWorld
    /\ UNCHANGED <<bwcConfig, breakerVars, fundingVars, rebalancerVars, poolVars, gateVars, cooldownVars, orchestratorVars>>

\* sendTransaction resolves with a signature.
BurnerFundSend ==
    /\ burnerTasks.create.pc = "fund"
    /\ burnerTasks' = [burnerTasks EXCEPT !.create.pc = "confirm"]
    /\ burnerWorld' = [burnerWorld EXCEPT !.fundTx[burnerTasks.create.pubkey] = "pending"]
    /\ UNCHANGED <<bwm, burnerLog>>
    /\ UNCHANGED <<bwcConfig, breakerVars, fundingVars, rebalancerVars, poolVars, gateVars, cooldownVars, orchestratorVars>>

\* sendTransaction rejects: the catch at 576 returns false.
BurnerFundSendThrows ==
    /\ burnerTasks.create.pc = "fund"
    /\ CreateFails
    /\ UNCHANGED burnerWorld
    /\ UNCHANGED <<bwcConfig, breakerVars, fundingVars, rebalancerVars, poolVars, gateVars, cooldownVars, orchestratorVars>>

\* confirmTransaction resolves: the transfer has landed.
BurnerFundConfirmed ==
    /\ burnerTasks.create.pc = "confirm"
    /\ burnerWorld.fundTx[burnerTasks.create.pubkey] = "landed"
    /\ CreateSucceeds("resolved")
    /\ UNCHANGED burnerWorld
    /\ UNCHANGED <<bwcConfig, breakerVars, fundingVars, rebalancerVars, poolVars, gateVars, cooldownVars, orchestratorVars>>

\* confirmTransaction rejects (the transfer is not confirmed in time):
\* the catch at 561 only logs, and fundBurnerWallet returns true.
BurnerFundConfirmThrows ==
    /\ burnerTasks.create.pc = "confirm"
    /\ burnerWorld.fundTx[burnerTasks.create.pubkey] # "landed"
    /\ CreateSucceeds("threw")
    /\ UNCHANGED burnerWorld
    /\ UNCHANGED <<bwcConfig, breakerVars, fundingVars, rebalancerVars, poolVars, gateVars, cooldownVars, orchestratorVars>>

\* The chain executes a funding transfer (one it never executes stays pending).
BurnerFundLands(b) ==
    /\ burnerWorld.fundTx[b] = "pending"
    /\ burnerWorld' = [burnerWorld EXCEPT !.fundTx[b] = "landed",
                           !.balance[b] = @ + BurnerFundAmount]
    /\ UNCHANGED <<bwm, burnerTasks, burnerLog>>
    /\ UNCHANGED <<bwcConfig, breakerVars, fundingVars, rebalancerVars, poolVars, gateVars, cooldownVars, orchestratorVars>>

\* ---- getAvailableBurners and the wallet cycles ----

\* getAvailableBurners(count): cleanupBurners, then some of the eligible
\* burners (those whose cooldown of 30 to 60 s and more has passed, up to
\* the count); processBatch starts their cycles.
getAvailableBurners(selected, stale) ==
    /\ burnerTasks.loop = "top"
    /\ LET cleaned == cleanupBurners(bwm, burnerWorld.aged, stale) IN
        /\ selected \subseteq Eligible(cleaned)
        /\ bwm' = cleaned
        /\ burnerTasks' = [burnerTasks EXCEPT !.batch = selected,
                               !.loop = IF selected = {} THEN "top" ELSE "batch"]
    /\ UNCHANGED <<burnerWorld, burnerLog>>
    /\ UNCHANGED <<bwcConfig, breakerVars, fundingVars, rebalancerVars, poolVars, gateVars, cooldownVars, orchestratorVars>>

\* processWalletCycle 424-426: the cycle of a burner ends with
\* markBurnerUsed(pubkey, actions.length); a lifetime reached sets the timer.
CycleCompletes(b) ==
    /\ burnerTasks.loop = "batch"
    /\ b \in burnerTasks.batch
    /\ bwm' = markBurnerUsed(bwm, b, bwcConfig.numActionsPerCycle)
    /\ burnerTasks' = [burnerTasks EXCEPT
            !.batch  = @ \ {b},
            !.loop   = IF burnerTasks.batch = {b} THEN "top" ELSE "batch",
            !.timers = IF bwm'.pendingDisposal # bwm.pendingDisposal
                       THEN @ \cup {b} ELSE @]
    /\ burnerLog' = [burnerLog EXCEPT !.used =
            IF b \in bwm.burnerWallets THEN @ \cup {b} ELSE @]
    /\ UNCHANGED burnerWorld
    /\ UNCHANGED <<bwcConfig, breakerVars, fundingVars, rebalancerVars, poolVars, gateVars, cooldownVars, orchestratorVars>>

\* processWalletCycle 380-384, 438-443: a cycle that is skipped for a low
\* balance or that throws does not mark the burner.
CycleAborts(b) ==
    /\ burnerTasks.loop = "batch"
    /\ b \in burnerTasks.batch
    /\ burnerTasks' = [burnerTasks EXCEPT
            !.batch = @ \ {b},
            !.loop  = IF burnerTasks.batch = {b} THEN "top" ELSE "batch"]
    /\ UNCHANGED <<bwm, burnerWorld, burnerLog>>
    /\ UNCHANGED <<bwcConfig, breakerVars, fundingVars, rebalancerVars, poolVars, gateVars, cooldownVars, orchestratorVars>>

\* ---- disposeBurnerWallet / withdrawBurnerFunds ----

\* disposeBurnerWallet 706-716: the records go, stats.disposed counts.
Disposed(m, pubkey) ==
    [DeleteRecords(m, {pubkey}) EXCEPT !.stats.disposed = @ + 1]

\* disposeBurnerWallet up to its first await: nothing for an unknown pubkey,
\* the deletion at once without a sink, else withdrawBurnerFunds queries the
\* balance.  Gives the manager and the task of the invocation.
DisposeBegin_NoGuard(m, pubkey) ==
    IF ~sinkKeypair THEN [m |-> Disposed(m, pubkey), task |-> NoTask]
    ELSE [m |-> m, task |-> [pc |-> "balance", amount |-> 0, tx |-> "none"]]

DisposeBegin(m, pubkey) ==
    IF pubkey \notin m.burnerWallets THEN [m |-> m, task |-> NoTask]
    ELSE IF ~sinkKeypair THEN [m |-> Disposed(m, pubkey), task |-> NoTask]
    ELSE [m |-> m, task |-> [pc |-> "balance", amount |-> 0, tx |-> "none"]]

\* The timer of scheduleBurnerDisposal 687-689 fires.
DisposalTimerFires(b) ==
    /\ b \in burnerTasks.timers
    /\ burnerTasks.disposals[b]["timer"].pc = "none"
    /\ LET begun == DisposeBegin(bwm, b) IN
        /\ bwm' = begun.m
        /\ burnerTasks' = [burnerTasks EXCEPT !.timers = @ \ {b},
                               !.disposals[b]["timer"] = begun.task]
    /\ UNCHANGED <<burnerWorld, burnerLog>>
    /\ UNCHANGED <<bwcConfig, breakerVars, fundingVars, rebalancerVars, poolVars, gateVars, cooldownVars, orchestratorVars>>

\* The invocation (b, o) leaves withdrawBurnerFunds and deletes the records.
DisposeEnds(b, o, tx) ==
    /\ bwm' = Disposed(bwm, b)
    /\ burnerTasks' = [burnerTasks EXCEPT !.disposals[b][o] =
                           [pc |-> "none", amount |-> 0, tx |-> tx]]

\* withdrawBurnerFunds 744-750: the balance is at or below the floor.
WithdrawNothing(b, o) ==
    /\ burnerTasks.disposals[b][o].pc = "balance"
    /\ burnerWorld.balance[b] <= MinBurnerBalance
    /\ DisposeEnds(b, o, "none")
    /\ UNCHANGED <<burnerWorld, burnerLog>>
    /\ UNCHANGED <<bwcConfig, breakerVars, fundingVars, rebalancerVars, poolVars, gateVars, cooldownVars, orchestratorVars>>

\* withdrawBurnerFunds 752-762: the balance above the floor is sent to the sink.
WithdrawSend(b, o) ==
    /\ burnerTasks.disposals[b][o].pc = "balance"
    /\ burnerWorld.balance[b] > MinBurnerBalance
    /\ burnerTasks' = [burnerTasks EXCEPT !.disposals[b][o] =
            [pc |-> "confirm", amount |-> burnerWorld.balance[b] - MinBurnerBalance,
             tx |-> "pending"]]
    /\ UNCHANGED <<bwm, burnerWorld, burnerLog>>
    /\ UNCHANGED <<bwcConfig, breakerVars, fundingVars, rebalancerVars, poolVars, gateVars, cooldownVars, orchestratorVars>>

\* Mutant: a sweep that fails ends the disposal and leaves the records.
WithdrawThrows_KeepsRecord(b, o) ==
    /\ burnerTasks.disposals[b][o].pc = "balance"
    /\ burnerTasks' = [burnerTasks EXCEPT !.disposals[b][o] = NoTask]
    /\ UNCHANGED <<bwm, burnerWorld, burnerLog>>
    /\ UNCHANGED <<bwcConfig, breakerVars, fundingVars, rebalancerVars, poolVars, gateVars, cooldownVars, orchestratorVars>>

\* getBalance or sendTransaction rejects: the catch at 771 logs, and
\* disposeBurnerWallet goes on to delete the records.
WithdrawThrows(b, o) ==
    /\ burnerTasks.disposals[b][o].pc = "balance"
    /\ DisposeEnds(b, o, "none")
    /\ UNCHANGED <<burnerWorld, burnerLog>>
    /\ UNCHANGED <<bwcConfig, breakerVars, fundingVars, rebalancerVars, poolVars, gateVars, cooldownVars, orchestratorVars>>

\* confirmTransaction resolves: the sweep has landed.
WithdrawConfirmed(b, o) ==
    /\ burnerTasks.disposals[b][o].pc = "confirm"
    /\ burnerTasks.disposals[b][o].tx = "landed"
    /\ DisposeEnds(b, o, "none")
    /\ UNCHANGED <<burnerWorld, burnerLog>>
    /\ UNCHANGED <<bwcConfig, breakerVars, fundingVars, rebalancerVars, poolVars, gateVars, cooldownVars, orchestratorVars>>

\* confirmTransaction rejects (not confirmed in time): caught at 771; the
\* records are deleted, the transfer is still pending.
WithdrawConfirmThrows(b, o) ==
    /\ burnerTasks.disposals[b][o].pc = "confirm"
    /\ burnerTasks.disposals[b][o].tx = "pending"
    /\ DisposeEnds(b, o, "pending")
    /\ UNCHANGED <<burnerWorld, burnerLog>>
    /\ UNCHANGED <<bwcConfig, breakerVars, fundingVars, rebalancerVars, poolVars, gateVars, cooldownVars, orchestratorVars>>

\* The chain executes a sweep, if the burner still holds the amount.
SweepLands(b, o) ==
    /\ burnerTasks.disposals[b][o].tx = "pending"
    /\ burnerWorld.balance[b] >= burnerTasks.disposals[b][o].amount
    /\ burnerWorld' = [burnerWorld EXCEPT
            !.balance[b] = @ - burnerTasks.disposals[b][o].amount]
    /\ burnerTasks' = [burnerTasks EXCEPT !.disposals[b][o].tx =
            IF burnerTasks.disposals[b][o].pc = "confirm" THEN "landed" ELSE "none"]
    /\ UNCHANGED <<bwm, burnerLog>>
    /\ UNCHANGED <<bwcConfig, breakerVars, fundingVars, rebalancerVars, poolVars, gateVars, cooldownVars, orchestratorVars>>

\* ---- emergencyDisposeAll ----

RECURSIVE BeginAll(_, _)
\* disposeBurnerWallet started for each of the pubkeys ks, one after the
\* other, each up to its first await (898-899).
BeginAll(m, ks) ==
    IF ks = {} THEN [m |-> m, tasks |-> [b \in {} |-> NoTask]]
    ELSE LET b     == CHOOSE x \in ks : \A y \in ks : x <= y
             begun == DisposeBegin(m, b)
             rest  == BeginAll(begun.m, ks \ {b})
         IN  [m |-> rest.m, tasks |-> MapSet(rest.tasks, b, begun.task)]

\* VolumeBoosterBot.stop 392-399, called from the run loop: the loop ends and
\* emergencyDisposeAll starts a disposal of every tracked burner.
EmergencyStart ==
    /\ burnerTasks.loop = "top"
    /\ \A b \in Burners : burnerTasks.disposals[b]["emergency"].pc = "none"
    /\ LET begun == BeginAll(bwm, bwm.burnerWallets) IN
        /\ bwm' = begun.m
        /\ burnerTasks' = [burnerTasks EXCEPT
                !.loop = "stopping",
                !.disposals = [b \in Burners |->
                    IF b \in DOMAIN begun.tasks
                    THEN [@[b] EXCEPT !["emergency"] = begun.tasks[b]]
                    ELSE @[b]]]
    /\ UNCHANGED <<burnerWorld, burnerLog>>
    /\ UNCHANGED <<bwcConfig, breakerVars, fundingVars, rebalancerVars, poolVars, gateVars, cooldownVars, orchestratorVars>>

\* emergencyDisposeAll 901-908: every disposal has settled; the five
\* structures are cleared.
EmergencyFinish ==
    /\ burnerTasks.loop = "stopping"
    /\ \A b \in Burners : burnerTasks.disposals[b]["emergency"].pc = "none"
    /\ bwm' = DeleteRecords(bwm, Burners)
    /\ burnerTasks' = [burnerTasks EXCEPT !.loop = "stopped"]
    /\ UNCHANGED <<burnerWorld, burnerLog>>
    /\ UNCHANGED <<bwcConfig, breakerVars, fundingVars, rebalancerVars, poolVars, gateVars, cooldownVars, orchestratorVars>>

\* ---- the clock ----

\* More than 24 hours pass: every burner tracked now is older than EXPIRY_TIME.
DayPasses ==
    /\ burnerTasks.loop # "stopped"
    /\ ~(bwm.burnerWallets \subseteq burnerWorld.aged)
    /\ burnerWorld' = [burnerWorld EXCEPT !.aged = @ \cup bwm.burnerWallets]
    /\ UNCHANGED <<bwm, burnerTasks, burnerLog>>
    /\ UNCHANGED <<bwcConfig, breakerVars, fundingVars, rebalancerVars, poolVars, gateVars, cooldownVars, orchestratorVars>>

NextBurner ==
    \/ CreateStart
    \/ FundRefused
    \/ BurnerFundSend
    \/ BurnerFundSendThrows
    \/ BurnerFundConfirmed
    \/ BurnerFundConfirmThrows
    \/ \E b \in Burners : BurnerFundLands(b)
    \/ \E selected, stale \in SUBSET Burners : getAvailableBurners(selected, stale)
    \/ \E b \in Burners : CycleCompletes(b)
    \/ \E b \in Burners : CycleAborts(b)
    \/ \E b \in Burners : DisposalTimerFires(b)
    \/ \E b \in Burners, o \in Origins : WithdrawNothing(b, o)
    \/ \E b \in Burners, o \in Origins : WithdrawSend(b, o)
    \/ \E b \in Burners, o \in Origins : WithdrawThrows(b, o)
    \/ \E b \in Burners, o \in Origins : WithdrawConfirmed(b, o)
    \/ \E b \in Burners, o \in Origins : WithdrawConfirmThrows(b, o)
    \/ \E b \in Burners, o \in Origins : SweepLands(b, o)
    \/ EmergencyStart
    \/ EmergencyFinish
    \/ DayPasses

(***************************************************************************)
(* Part IV: WalletRebalancer                                               *)
(*                                                                         *)
(* One invocation of rebalanceWallets over the active batch, step by step  *)
(* (the run loop awaits it, so nothing else moves the batch meanwhile).    *)
(* Amounts are counted in thousandths of a SOL: a balance of 10 is         *)
(* 0.01 SOL, and a SOL is LAMPORTS_PER_SOL = 1000 of them.                 *)
(***************************************************************************)
LAMPORTS_PER_SOL == 1000

\* TARGET_WALLET_BALANCE_SOL, MIN_WALLET_BALANCE_SOL and DUST_THRESHOLD_SOL
\* as ConfigManager stores them: validateSolAmount has already converted
\* them to the smallest unit (0.05, 0.005 and 0.001 SOL by default).
RebalanceConfigChoices ==
    { [targetWalletBalance |-> 50, minWalletBalance |-> 5,   dustThreshold |-> 1],
      [targetWalletBalance |-> 50, minWalletBalance |-> 100, dustThreshold |-> 1],
      [targetWalletBalance |-> 1,  minWalletBalance |-> 5,   dustThreshold |-> 10] }

DefaultRebalanceConfig ==
    [ targetWalletBalance |-> 50, minWalletBalance |-> 5, dustThreshold |-> 1 ]

\* The balances a wallet of the batch may hold when rebalanceWallets starts.
PoolBalances == {1, 10, 200, 2000, 60000, 80000, 200000}

\* Math.floor(randomPct * 100) for randomPct = 0.90 + Math.random() * 0.08
\* lies in 90..97: the values explored.
SinkPcts == {90, 97}

\* The constructor 657-659 multiplies the stored values by LAMPORTS_PER_SOL.
targetWalletBalanceLamports == rebalanceConfig.targetWalletBalance * LAMPORTS_PER_SOL

minWalletBalanceLamports == rebalanceConfig.minWalletBalance * LAMPORTS_PER_SOL

dustThresholdLamports == rebalanceConfig.dustThreshold * LAMPORTS_PER_SOL

ActiveWallets == DOMAIN pool.balance

RECURSIVE Ascending(_, _)
\* The wallets of S by ascending balance, ties in batch order (sort is stable).
Ascending(S, bal) ==
    IF S = {} THEN <<>>
    ELSE LET w == CHOOSE x \in S : \A y \in S :
                      bal[x] < bal[y] \/ (bal[x] = bal[y] /\ x <= y)
         IN  <<w>> \o Ascending(S \ {w}, bal)

RECURSIVE Descending(_, _)
\* The wallets of S by descending balance, ties in batch order.
Descending(S, bal) ==
    IF S = {} THEN <<>>
    ELSE LET w == CHOOSE x \in S : \A y \in S :
                      bal[x] > bal[y] \/ (bal[x] = bal[y] /\ x <= y)
         IN  <<w>> \o Descending(S \ {w}, bal)

\* 692: the wallets below the minimum, poorest first.
NeedsFunding(bal) ==
    Ascending({w \in DOMAIN bal : bal[w] < minWalletBalanceLamports}, bal)

\* 693: the wallets above 1.5 x target, richest first.
HasSurplus(bal) ==
    Descending({w \in DOMAIN bal :
                   bal[w] > (targetWalletBalanceLamports * 3) \div 2}, bal)

\* 747: the surplus wallets still above 1.1 x target, in the order of hasSurplus.
RemainingSurplus(surplus, bal) ==
    SelectSeq(surplus, LAMBDA w : bal[w] > (targetWalletBalanceLamports * 11) \div 10)

\* The sink account, next to the wallets 1..n of the batch.
SinkAccount == 0

\* SystemProgram.transfer with fees at zero, to a wallet of the batch or to
\* the sink.
ChainTransfer_NoDebit(p, from, to, amount) ==
    IF to = SinkAccount
    THEN [p EXCEPT !.sink = @ + amount]
    ELSE [p EXCEPT !.balance[to] = @ + amount]

ChainTransfer(p, from, to, amount) ==
    IF to = SinkAccount
    THEN [p EXCEPT !.balance[from] = @ - amount, !.sink = @ + amount]
    ELSE [p EXCEPT !.balance[from] = @ - amount, !.balance[to] = @ + amount]

NotRebalancing ==
    [ pc             |-> "idle",
      walletBalances |-> <<>>,
      needsFunding   |-> <<>>,
      hasSurplus     |-> <<>>,
      needyIndex     |-> 1,
      surplusIndex   |-> 1,
      remaining      |-> <<>>,
      sinkIndex      |-> 1 ]

\* The history of the invocation: the balances when it started, the P2P
\* pairings it decided (with the snapshot balances it decided them on),
\* whether a transfer it attempted was not confirmed, and the transfers to the
\* sink it attempted.
EmptyRebalanceLog ==
    [ start        |-> <<>>,
      pairings     |-> <<>>,
      allSucceeded |-> TRUE,
      failures     |-> 0,
      sinkAttempts |-> <<>> ]

\* rebalanceWallets 666-700: the snapshot and its two partitions.  The P2P
\* loop runs when both are non-empty (703).
RebalanceStart ==
    /\ rebalancer.pc = "idle"
    /\ Len(pool.balance) >= 2
    /\ LET needy   == NeedsFunding(pool.balance)
           surplus == HasSurplus(pool.balance) IN
        rebalancer' = [rebalancer EXCEPT
            !.pc             = IF needy # <<>> /\ surplus # <<>> THEN "p2p" ELSE "p2pDone",
            !.walletBalances = pool.balance,
            !.needsFunding   = needy,
            !.hasSurplus     = surplus]
    /\ rebalanceLog' = [rebalanceLog EXCEPT !.start = pool.balance]
    /\ UNCHANGED pool
    /\ UNCHANGED <<rebalanceConfig, breakerVars, fundingVars, burnerVars, poolVars, gateVars, cooldownVars, orchestratorVars>>

\* 684-688: getBalance rejects for a wallet of the batch, outside any try
\* block: rebalanceWallets rejects before a transfer is attempted (the run
\* loop catches it, VolumeBoosterBot.js 246).
RebalanceBalanceThrows ==
    /\ rebalancer.pc = "idle"
    /\ Len(pool.balance) >= 2
    /\ rebalancer' = [rebalancer EXCEPT !.pc = "threw"]
    /\ rebalanceLog' = [rebalanceLog EXCEPT !.start = pool.balance]
    /\ UNCHANGED pool
    /\ UNCHANGED <<rebalanceConfig, breakerVars, fundingVars, burnerVars, poolVars, gateVars, cooldownVars, orchestratorVars>>

\* The pairing of the current iteration of the loop at 705.
Needy == rebalancer.needsFunding[rebalancer.needyIndex]

SurplusProvider == rebalancer.hasSurplus[rebalancer.surplusIndex]

neededAmount == targetWalletBalanceLamports - rebalancer.walletBalances[Needy]

availableSurplus ==
    rebalancer.walletBalances[SurplusProvider] - targetWalletBalanceLamports

InP2PLoop ==
    /\ rebalancer.pc = "p2p"
    /\ rebalancer.needyIndex <= Len(rebalancer.needsFunding)

Paired ==
    /\ InP2PLoop
    /\ rebalancer.surplusIndex <= Len(rebalancer.hasSurplus)
    /\ SurplusProvider # Needy

\* 715: the transfer is attempted only for a surplus above the need.
AttemptsTransfer == availableSurplus > neededAmount

\* 740-742 and the loop step: the donor is left once its surplus in the
\* snapshot bal is below the dust threshold; the next needy wallet follows.
NextPairing(r, bal) ==
    [r EXCEPT !.walletBalances = bal,
              !.needyIndex     = @ + 1,
              !.surplusIndex   =
                  IF bal[SurplusProvider] - targetWalletBalanceLamports
                         < dustThresholdLamports
                  THEN @ + 1 ELSE @]

PairingRecord(amount) ==
    [ needy |-> Needy, donor |-> SurplusProvider, amount |-> amount,
      needyBalance |-> rebalancer.walletBalances[Needy],
      donorBalance |-> rebalancer.walletBalances[SurplusProvider] ]

\* The loop has gone through the needy wallets, or has no donor left (706).
P2PLoopEnds ==
    /\ rebalancer.pc = "p2p"
    /\ \/ rebalancer.needyIndex > Len(rebalancer.needsFunding)
       \/ rebalancer.surplusIndex > Len(rebalancer.hasSurplus)
    /\ rebalancer' = [rebalancer EXCEPT !.pc = "p2pDone"]
    /\ UNCHANGED <<pool, rebalanceLog>>
    /\ UNCHANGED <<rebalanceConfig, breakerVars, fundingVars, burnerVars, poolVars, gateVars, cooldownVars, orchestratorVars>>

\* 711: a wallet is not paired with itself; the next needy wallet follows.
P2PSelfSkipped ==
    /\ InP2PLoop
    /\ rebalancer.surplusIndex <= Len(rebalancer.hasSurplus)
    /\ SurplusProvider = Needy
    /\ rebalancer' = [rebalancer EXCEPT !.needyIndex = @ + 1]
    /\ UNCHANGED <<pool, rebalanceLog>>
    /\ UNCHANGED <<rebalanceConfig, breakerVars, fundingVars, burnerVars, poolVars, gateVars, cooldownVars, orchestratorVars>>

\* 715 is false: nothing is transferred to this needy wallet.
P2PNoTransfer ==
    /\ Paired
    /\ ~AttemptsTransfer
    /\ rebalancer' = NextPairing(rebalancer, rebalancer.walletBalances)
    /\ rebalanceLog' = [rebalanceLog EXCEPT !.pairings = Append(@, PairingRecord(0))]
    /\ UNCHANGED pool
    /\ UNCHANGED <<rebalanceConfig, breakerVars, fundingVars, burnerVars, poolVars, gateVars, cooldownVars, orchestratorVars>>

\* 716-733: neededAmount is sent and confirmed; the snapshot follows.
P2PTransfer ==
    /\ Paired
    /\ AttemptsTransfer
    /\ neededAmount >= 0
    /\ pool.balance[SurplusProvider] >= neededAmount
    /\ pool' = ChainTransfer(pool, SurplusProvider, Needy, neededAmount)
    /\ rebalancer' = NextPairing(rebalancer,
            [rebalancer.walletBalances EXCEPT
                ![SurplusProvider] = @ - neededAmount,
                ![Needy]           = @ + neededAmount])
    /\ rebalanceLog' = [rebalanceLog EXCEPT
            !.pairings = Append(@, PairingRecord(neededAmount))]
    /\ UNCHANGED <<rebalanceConfig, breakerVars, fundingVars, burnerVars, poolVars, gateVars, cooldownVars, orchestratorVars>>

\* Mutant: a failing P2P transfer ends the invocation with the exception.
P2PTransferFails_Aborts ==
    /\ Paired
    /\ AttemptsTransfer
    /\ rebalancer' = [rebalancer EXCEPT !.pc = "threw"]
    /\ rebalanceLog' = [rebalanceLog EXCEPT
            !.pairings = Append(@, PairingRecord(0)),
            !.allSucceeded = FALSE, !.failures = @ + 1]
    /\ UNCHANGED pool
    /\ UNCHANGED <<rebalanceConfig, breakerVars, fundingVars, burnerVars, poolVars, gateVars, cooldownVars, orchestratorVars>>

\* 736-738: the transfer cannot be built (a negative amount) or
\* sendTransaction or confirmTransaction rejects, and the transfer does not
\* happen; the snapshot is left as it is.
P2PTransferFails ==
    /\ Paired
    /\ AttemptsTransfer
    /\ rebalancer' = NextPairing(rebalancer, rebalancer.walletBalances)
    /\ rebalanceLog' = [rebalanceLog EXCEPT
            !.pairings = Append(@, PairingRecord(0)),
            !.allSucceeded = FALSE, !.failures = @ + 1]
    /\ UNCHANGED pool
    /\ UNCHANGED <<rebalanceConfig, breakerVars, fundingVars, burnerVars, poolVars, gateVars, cooldownVars, orchestratorVars>>

\* 736-738: confirmTransaction rejects for a transfer that the chain
\* executes all the same; the snapshot is left as it is.
P2PTransferUnconfirmed ==
    /\ Paired
    /\ AttemptsTransfer
    /\ neededAmount >= 0
    /\ pool.balance[SurplusProvider] >= neededAmount
    /\ pool' = ChainTransfer(pool, SurplusProvider, Needy, neededAmount)
    /\ rebalancer' = NextPairing(rebalancer, rebalancer.walletBalances)
    /\ rebalanceLog' = [rebalanceLog EXCEPT
            !.pairings = Append(@, PairingRecord(neededAmount)),
            !.allSucceeded = FALSE]
    /\ UNCHANGED <<rebalanceConfig, breakerVars, fundingVars, burnerVars, poolVars, gateVars, cooldownVars, orchestratorVars>>

\* 747-750: the wallets to consolidate; without any, or without a sink,
\* rebalanceWallets returns.
ConsolidationStart ==
    /\ rebalancer.pc = "p2pDone"
    /\ LET rest == RemainingSurplus(rebalancer.hasSurplus, rebalancer.walletBalances) IN
        rebalancer' = [rebalancer EXCEPT
            !.remaining = rest,
            !.pc = IF rest # <<>> /\ sinkKeypair THEN "sink" ELSE "done"]
    /\ UNCHANGED <<pool, rebalanceLog>>
    /\ UNCHANGED <<rebalanceConfig, breakerVars, fundingVars, burnerVars, poolVars, gateVars, cooldownVars, orchestratorVars>>

\* consolidateSurplusToSink 762-770 for the current wallet.
SinkWallet == rebalancer.remaining[rebalancer.sinkIndex]

SinkSurplus == rebalancer.walletBalances[SinkWallet] - targetWalletBalanceLamports

transferAmount(pct) == (SinkSurplus * pct) \div 100

InSinkLoop ==
    /\ rebalancer.pc = "sink"
    /\ rebalancer.sinkIndex <= Len(rebalancer.remaining)

Consolidates(pct) ==
    /\ InSinkLoop
    /\ SinkSurplus > dustThresholdLamports
    /\ transferAmount(pct) >= dustThresholdLamports

NextSinkWallet(r) ==
    [r EXCEPT !.sinkIndex = @ + 1,
              !.pc = IF r.sinkIndex + 1 > Len(r.remaining) THEN "done" ELSE "sink"]

\* 765, 770: a surplus or an amount below the dust threshold is left alone.
SinkSkipped ==
    /\ InSinkLoop
    /\ \E pct \in SinkPcts : ~Consolidates(pct)
    /\ rebalancer' = NextSinkWallet(rebalancer)
    /\ UNCHANGED <<pool, rebalanceLog>>
    /\ UNCHANGED <<rebalanceConfig, breakerVars, fundingVars, burnerVars, poolVars, gateVars, cooldownVars, orchestratorVars>>

\* 772-782: the amount is sent to the sink and confirmed.
SinkTransfer(pct) ==
    /\ Consolidates(pct)
    /\ pool.balance[SinkWallet] >= transferAmount(pct)
    /\ pool' = ChainTransfer(pool, SinkWallet, SinkAccount, transferAmount(pct))
    /\ rebalancer' = NextSinkWallet(rebalancer)
    /\ rebalanceLog' = [rebalanceLog EXCEPT
            !.sinkAttempts = Append(@, [wallet |-> SinkWallet, amount |-> transferAmount(pct)])]
    /\ UNCHANGED <<rebalanceConfig, breakerVars, fundingVars, burnerVars, poolVars, gateVars, cooldownVars, orchestratorVars>>

\* 791-796: the transfer to the sink does not happen.
SinkTransferFails(pct) ==
    /\ Consolidates(pct)
    /\ rebalancer' = NextSinkWallet(rebalancer)
    /\ rebalanceLog' = [rebalanceLog EXCEPT
            !.allSucceeded = FALSE, !.failures = @ + 1,
            !.sinkAttempts = Append(@, [wallet |-> SinkWallet, amount |-> transferAmount(pct)])]
    /\ UNCHANGED pool
    /\ UNCHANGED <<rebalanceConfig, breakerVars, fundingVars, burnerVars, poolVars, gateVars, cooldownVars, orchestratorVars>>

NextRebalancer ==
    \/ RebalanceStart
    \/ RebalanceBalanceThrows
    \/ P2PLoopEnds
    \/ P2PSelfSkipped
    \/ P2PNoTransfer
    \/ P2PTransfer
    \/ P2PTransferFails
    \/ P2PTransferUnconfirmed
    \/ ConsolidationStart
    \/ SinkSkipped
    \/ \E pct \in SinkPcts : SinkTransfer(pct)
    \/ \E pct \in SinkPcts : SinkTransferFails(pct)

(***************************************************************************)
(* Part V: the wallet pool of WalletManager                                *)
(*                                                                         *)
(* The roster is loaded from the wallet file by VolumeBoosterBot.init,     *)
(* the run loop draws a batch from it with loadActiveBatch (and, with      *)
(* burner churning on, from the burners of Part III), and each wallet of   *)
(* the batch runs processWalletCycle, which marks the wallet used on the   *)
(* manager that owns it.  Keys are small numbers: the persisted keys are   *)
(* PersistedKeys, Keypair.generate gives the next key never seen.  Time is *)
(* counted in units of 3 minutes.                                         *)
(***************************************************************************)
PersistedKeys == 1..2

\* A record of the wallet file: pubkey is 0 when the field is absent,
\* isSeasoned is "true", "false" or "absent".
PersistedRecords ==
    { [pubkey |-> 1, privateKey |-> 1, isSeasoned |-> "true"],
      [pubkey |-> 0, privateKey |-> 1, isSeasoned |-> "absent"],
      [pubkey |-> 2, privateKey |-> 2, isSeasoned |-> "false"] }

\* The wallet files explored: up to MaxPersisted records, in any order and
\* with repetitions.
PersistedRosters == UNION {[1..n -> PersistedRecords] : n \in 0..MaxPersisted}

\* NUM_WALLETS_TO_GENERATE (1..10000), BATCH_SIZE (1..1000),
\* AUTO_SCALE_CONCURRENCY, ENABLE_SEASONING, SHUFFLE_WALLETS,
\* MIN/MAX_WALLET_COOLDOWN_MS (30 and 45 minutes), BWC_ENABLED,
\* BWC_MODE: the values explored.
DefaultPoolConfig ==
    [ numWalletsToGenerate |-> 2,
      batchSize            |-> 2,
      autoScale            |-> TRUE,
      enableSeasoning      |-> FALSE,
      shuffleWallets       |-> TRUE,
      minWalletCooldownMs  |-> 10,
      maxWalletCooldownMs  |-> 15,
      bwcEnabled           |-> FALSE,
      bwcMode              |-> "hybrid" ]

PoolConfigChoices ==
    { [DefaultPoolConfig EXCEPT !.autoScale = FALSE],
      [DefaultPoolConfig EXCEPT !.batchSize = 1, !.shuffleWallets = FALSE],
      [DefaultPoolConfig EXCEPT !.batchSize = 1, !.autoScale = FALSE,
                                !.enableSeasoning = TRUE],
      [DefaultPoolConfig EXCEPT !.batchSize = 1, !.autoScale = FALSE,
                                !.shuffleWallets = FALSE, !.bwcEnabled = TRUE],
      [DefaultPoolConfig EXCEPT !.batchSize = 1, !.autoScale = FALSE,
                                !.shuffleWallets = FALSE, !.bwcEnabled = TRUE,
                                !.bwcMode = "burner_only"] }

\* MAX_COOLDOWN_AGE_MS (24 hours) and the 7 days of the deep cleanup; the
\* number of inactive wallets above which the deep cleanup acts, and the cap
\* of the trade counts.
MAX_COOLDOWN_AGE_MS == 480
INACTIVE_THRESHOLD == 3360
INACTIVE_MIN_COUNT == 100
TRADE_COUNT_CAP == 1000

\* Date.now() when the bot starts: later than any age the code compares with.
PoolStartTime == 10000

\* The WalletManager after its constructor (activeWallets, the batch that
\* loadActiveBatch returned last, is the batch of poolTasks).
NewWalletManager ==
    [ walletData       |-> <<>>,
      allPubkeys       |-> {},
      walletCooldowns  |-> EmptyMap,
      walletTradeCount |-> EmptyMap ]

\* The run loop: not started, at its top, or inside processBatch with the
\* wallets of the batch and the positions whose cycle is still running.
IdlePoolTasks == [loop |-> "constructed", batch |-> <<>>, running |-> {}]

\* A loadActiveBatch call as the history keeps it: its time, the roster
\* positions that passed the filter, the positions it returned.  The history
\* forgets the calls when a wallet is marked used and when time passes.
NoLoadCall == [valid |-> FALSE, time |-> 0, ready |-> {}, selected |-> <<>>]

\* The history: the wallet file as init found it, the latest two
\* loadActiveBatch calls made with no markWalletUsed since, how the latest
\* processWalletCycle ended.
EmptyPoolLog ==
    [ persisted |-> <<>>,
      prev      |-> NoLoadCall,
      last      |-> NoLoadCall,
      outcome   |-> "none" ]

\* Keypair.fromSecretKey(privateKey).publicKey.toBase58()
derivePubkey(privateKey) == privateKey

\* Keypair.generate(): the j-th key generated in this run.
generateKeypair(j) == Cardinality(PersistedKeys) + j

\* normalizeWalletData
normalizeWalletData(data) ==
    [i \in DOMAIN data |->
        [ pubkey     |-> IF data[i].pubkey # 0 THEN data[i].pubkey
                         ELSE derivePubkey(data[i].privateKey),
          privateKey |-> data[i].privateKey,
          isSeasoned |-> (data[i].isSeasoned = "true") ]]

\* generateWallets 87-106: the roster with fresh wallets appended up to the
\* configured count.
generateWallets(data) ==
    LET remaining == poolConfig.numWalletsToGenerate - Len(data) IN
    data \o [j \in 1..remaining |->
                [ pubkey     |-> generateKeypair(j),
                  privateKey |-> generateKeypair(j),
                  isSeasoned |-> FALSE ]]

\* writeWallets: the records as jsonfile writes them.
writeWallets(data) ==
    [i \in DOMAIN data |->
        [ pubkey     |-> data[i].pubkey,
          privateKey |-> data[i].privateKey,
          isSeasoned |-> IF data[i].isSeasoned THEN "true" ELSE "false" ]]

\* loadOrGenerateWallets 49-56: the roster after the load.
loadOrGenerateWallets(file) ==
    LET loaded == normalizeWalletData(file) IN
    IF Len(loaded) < poolConfig.numWalletsToGenerate
    THEN generateWallets(loaded) ELSE loaded

\* adjustConcurrency: the batch size it writes into the configuration.
adjustConcurrency(data) == Min(20, Max(2, (Len(data) \div 300) + 2))

\* BurnerWalletManager.init -> ensureMinimumBurners: the manager after
\* `created` burners were created and funded.
RECURSIVE InitialBurners(_, _)
InitialBurners(m, created) ==
    IF created = 0 THEN m
    ELSE InsertBurner(InitialBurners(m, created - 1), created)

\* VolumeBoosterBot.init 72-75: the roster is loaded (and completed, and the
\* file rewritten), the batch size is rescaled, and with burner churning on
\* the burner manager creates its first burners (at most two).
VolumeBoosterBotInit(created) ==
    /\ poolTasks.loop = "constructed"
    /\ created <= Min(bwcConfig.bwcMaxBurnerWallets, 2)
    /\ created > 0 => poolConfig.bwcEnabled
    /\ LET roster == loadOrGenerateWallets(walletFile) IN
        /\ wm' = [wm EXCEPT !.walletData = roster,
                            !.allPubkeys = {roster[i].pubkey : i \in DOMAIN roster}]
        /\ walletFile' = IF Len(walletFile) < poolConfig.numWalletsToGenerate
                         THEN writeWallets(roster) ELSE walletFile
        /\ poolConfig' = IF poolConfig.autoScale
                         THEN [poolConfig EXCEPT !.batchSize = adjustConcurrency(roster)]
                         ELSE poolConfig
    /\ bwm' = InitialBurners(bwm, created)
    /\ burnerLog' = [burnerLog EXCEPT
            !.generated = created,
            !.outcome   = [b \in Burners |-> IF b <= created THEN "active" ELSE @[b]]]
    /\ poolTasks' = [poolTasks EXCEPT !.loop = "top"]
    /\ poolLog' = [poolLog EXCEPT !.persisted = walletFile]
    /\ UNCHANGED <<poolClock, bwcConfig, burnerTasks, burnerWorld>>
    /\ UNCHANGED <<breakerVars, fundingVars, rebalancerVars, gateVars, cooldownVars, orchestratorVars>>

\* getWalletCooldown: base is the draw of getRandomNumberBetween; the
\* multiplier 1 + (tradeCount % 5) * 0.2 is counted in fifths.
getWalletCooldown(m, walletKey, base) ==
    LET tradeCount == MapGet(m.walletTradeCount, walletKey, 0) IN
    (base * (5 + (tradeCount % 5))) \div 5

\* The draws of getRandomNumberBetween(min, max) that decide the test of
\* loadActiveBatch 480, which is monotone in the draw: the least, the largest.
BaseCooldowns == {poolConfig.minWalletCooldownMs, poolConfig.maxWalletCooldownMs}

\* cleanupOldCooldowns(now): capCounts and deep are the two draws of
\* Math.random() that enable the count cap and the deep cleanup.
cleanupOldCooldowns(m, now, capCounts, deep) ==
    LET cd0      == m.walletCooldowns
        cd1      == MapDelete(cd0, {k \in DOMAIN cd0 : now - cd0[k] > MAX_COOLDOWN_AGE_MS})
        tc0      == m.walletTradeCount
        tc1      == IF capCounts
                    THEN [k \in DOMAIN tc0 |-> IF tc0[k] > TRADE_COUNT_CAP
                                               THEN TRADE_COUNT_CAP ELSE tc0[k]]
                    ELSE tc0
        inactive == {k \in DOMAIN cd1 : now - cd1[k] > INACTIVE_THRESHOLD}
        purge    == deep /\ Cardinality(inactive) > INACTIVE_MIN_COUNT
    IN  [m EXCEPT !.walletCooldowns  = IF purge THEN MapDelete(cd1, inactive) ELSE cd1,
                  !.walletTradeCount = IF purge THEN MapDelete(tc1, inactive) ELSE tc1]

\* The outcomes of the two draws that make a difference: the cap changes
\* nothing unless a count exceeds it, the deep cleanup nothing unless there
\* are more entries than its minimum.
CapDraws(m) ==
    IF \E k \in DOMAIN m.walletTradeCount : m.walletTradeCount[k] > TRADE_COUNT_CAP
    THEN BOOLEAN ELSE {FALSE}

DeepDraws(m) ==
    IF Cardinality(DOMAIN m.walletCooldowns) > INACTIVE_MIN_COUNT
    THEN BOOLEAN ELSE {FALSE}

\* loadActiveBatch 472-485: the roster positions that pass the filter, with
\* the cooldown drawn for each record.
ReadyPositions(m, now, draws) ==
    {i \in DOMAIN m.walletData :
        LET w         == m.walletData[i]
            lastTrade == MapGet(m.walletCooldowns, w.pubkey, 0)
            cooldown  == getWalletCooldown(m, w.pubkey, draws[i])
        IN  /\ now - lastTrade >= cooldown
            /\ (~poolConfig.enableSeasoning \/ w.isSeasoned = TRUE)}

\* The sequences that list every element of S once.
Orderings(S) ==
    {q \in [1..Cardinality(S) -> S] : \A i, j \in DOMAIN q : i # j => q[i] # q[j]}

\* The elements of the set of numbers S in increasing order.
InOrder(S) ==
    CHOOSE q \in Orderings(S) : \A i, j \in DOMAIN q : i < j => q[i] < q[j]

\* shuffleArray / no shuffle (501), then slice(0, batchSize) (502).
Selections(ready) ==
    LET n == Min(poolConfig.batchSize, Cardinality(ready)) IN
    IF poolConfig.shuffleWallets
    THEN {SubSeq(q, 1, n) : q \in Orderings(ready)}
    ELSE {SubSeq(InOrder(ready), 1, n)}

\* loadActiveBatch 504-508: the wallet objects of the batch.
WalletObjects(m, selected) ==
    [p \in DOMAIN selected |->
        [ type    |-> "regular",
          pubkey  |-> m.walletData[selected[p]].pubkey,
          keypair |-> m.walletData[selected[p]].privateKey ]]

\* getAvailableBurners 219-226: the wallet objects of the burners.
BurnerWalletObjects(order) ==
    [p \in DOMAIN order |->
        [type |-> "burner", pubkey |-> order[p], keypair |-> order[p]]]

\* The run loop 168-224: loadActiveBatch, then the burners that
\* getAvailableBurners gives in hybrid mode (asked for as many as the pool
\* gave) or in burner_only mode (asked for batchSize); an empty batch leaves
\* the loop at its top, else processBatch starts the cycles.
SelectBatch(draws, capCounts, deep) ==
    /\ poolTasks.loop = "top"
    /\ LET cleaned     == cleanupOldCooldowns(wm, poolClock, capCounts, deep)
           ready       == ReadyPositions(cleaned, poolClock, draws)
           churning    == poolConfig.bwcEnabled
           swept       == cleanupBurners(bwm, {}, {})
           Count(selected) ==
               IF poolConfig.bwcMode = "hybrid" THEN Len(selected)
               ELSE poolConfig.batchSize
           Combined(selected, burners) ==
               LET walletBatch == WalletObjects(cleaned, selected) IN
               IF churning /\ poolConfig.bwcMode = "hybrid"
               THEN walletBatch \o BurnerWalletObjects(InOrder(burners))
               ELSE IF churning THEN BurnerWalletObjects(InOrder(burners))
               ELSE walletBatch
       IN
        /\ wm' = cleaned
        /\ bwm' = IF churning THEN swept ELSE bwm
        /\ \E selected \in (IF ready = {} THEN {<<>>} ELSE Selections(ready)) :
           \E burners \in (IF churning THEN SUBSET Eligible(swept) ELSE {{}}) :
              /\ Cardinality(burners) <= Count(selected)
              /\ poolTasks' = IF Combined(selected, burners) = <<>> THEN poolTasks
                              ELSE [loop |-> "batch", batch |-> Combined(selected, burners),
                                    running |-> DOMAIN Combined(selected, burners)]
              /\ poolLog' = [poolLog EXCEPT
                      !.prev = poolLog.last,
                      !.last = [valid |-> TRUE, time |-> poolClock, ready |-> ready,
                                selected |-> selected],
                      !.outcome = "none"]
    /\ UNCHANGED <<poolConfig, walletFile, poolClock>>
    /\ UNCHANGED <<bwcConfig, burnerTasks, burnerWorld, burnerLog>>
    /\ UNCHANGED <<breakerVars, fundingVars, rebalancerVars, gateVars, cooldownVars, orchestratorVars>>

\* markWalletUsed(wallet) at the time now.
markWalletUsed(m, wallet, now) ==
    LET walletKey == derivePubkey(wallet.keypair) IN
    [m EXCEPT !.walletCooldowns  = MapSet(@, walletKey, now),
              !.walletTradeCount = MapSet(@, walletKey, MapGet(@, walletKey, 0) + 1)]

\* processWalletCycle without the test of wallet.type: every wallet is marked
\* on the pool manager.
MarkUsed_IgnoresType(wallet, now) ==
    [wm |-> markWalletUsed(wm, wallet, now), bwm |-> bwm]

\* processWalletCycle 425-429: the pool manager and the burner manager after
\* the wallet was marked used.
MarkUsed(wallet, now) ==
    IF wallet.type = "burner"
    THEN [wm  |-> wm,
          bwm |-> markBurnerUsed(bwm, derivePubkey(wallet.keypair),
                                 bwcConfig.numActionsPerCycle)]
    ELSE [wm |-> markWalletUsed(wm, wallet, now), bwm |-> bwm]

\* The run loop after the cycle of position p ended: processBatch returns
\* when no cycle is running.
CycleLeaves(p) ==
    IF poolTasks.running = {p} THEN [loop |-> "top", batch |-> <<>>, running |-> {}]
    ELSE [poolTasks EXCEPT !.running = @ \ {p}]

\* processWalletCycle ran its actions to the end (386-436).
PoolCycleCompletes(p) ==
    /\ poolTasks.loop = "batch"
    /\ p \in poolTasks.running
    /\ LET marked == MarkUsed(poolTasks.batch[p], poolClock) IN
        /\ wm' = marked.wm
        /\ bwm' = marked.bwm
        /\ burnerTasks' = [burnerTasks EXCEPT !.timers =
                IF marked.bwm.pendingDisposal # bwm.pendingDisposal
                THEN @ \cup {poolTasks.batch[p].pubkey} ELSE @]
        /\ poolLog' = [poolLog EXCEPT
                !.outcome = "completed",
                !.prev = IF marked.wm # wm THEN NoLoadCall ELSE @,
                !.last = IF marked.wm # wm THEN NoLoadCall ELSE @]
    /\ poolTasks' = CycleLeaves(p)
    /\ UNCHANGED <<poolConfig, walletFile, poolClock>>
    /\ UNCHANGED <<bwcConfig, burnerWorld, burnerLog>>
    /\ UNCHANGED <<breakerVars, fundingVars, rebalancerVars, gateVars, cooldownVars, orchestratorVars>>

\* processWalletCycle skipped the wallet for its low balance (380-384) or
\* threw (438-443): nothing is marked.
PoolCycleAborts(p) ==
    /\ poolTasks.loop = "batch"
    /\ p \in poolTasks.running
    /\ poolTasks' = CycleLeaves(p)
    /\ poolLog' = [poolLog EXCEPT !.outcome = "aborted"]
    /\ UNCHANGED <<poolConfig, walletFile, wm, poolClock>>
    /\ UNCHANGED <<burnerVars, breakerVars, fundingVars, rebalancerVars, gateVars, cooldownVars, orchestratorVars>>

\* More than MAX_COOLDOWN_AGE_MS, in ticks: the bot idle for a day.
LongPause == MAX_COOLDOWN_AGE_MS + 1

\* A quarter of an hour.
PoolStep == 5

\* Time passes: a quarter of an hour, or (once) a day at a time.
PoolTick(d) ==
    /\ poolTasks.loop # "constructed"
    /\ IF d = PoolStep
       THEN poolClock - PoolStartTime < MaxPoolTicks * PoolStep
       ELSE d = LongPause /\ poolClock - PoolStartTime < LongPause
    /\ poolClock' = poolClock + d
    /\ poolLog' = [poolLog EXCEPT !.prev = NoLoadCall, !.last = NoLoadCall]
    /\ UNCHANGED <<poolConfig, walletFile, wm, poolTasks>>
    /\ UNCHANGED <<burnerVars, breakerVars, fundingVars, rebalancerVars, gateVars, cooldownVars, orchestratorVars>>

NextPool ==
    \/ \E created \in 0..MaxBurners : VolumeBoosterBotInit(created)
    \/ \E draws \in [DOMAIN wm.walletData -> BaseCooldowns] :
       \E capCounts \in CapDraws(wm) : \E deep \in DeepDraws(wm) :
           SelectBatch(draws, capCounts, deep)
    \/ \E p \in DOMAIN poolTasks.batch : PoolCycleCompletes(p)
    \/ \E p \in DOMAIN poolTasks.batch : PoolCycleAborts(p)
    \/ \E d \in {PoolStep, LongPause} : PoolTick(d)

(***************************************************************************)
(* Part VI: the creation gate and the selection of BurnerWalletManager     *)
(*                                                                         *)
(* ensureMinimumBurners with its pause after repeated funding failures,    *)
(* and getAvailableBurners with the cooldown of each burner, under a       *)
(* clock.  createBurnerWallet is one step here (Part III follows it on the *)
(* chain), and so is the disposal of a burner whose timer fired.  The      *)
(* invocations follow one another as in the run loop.  Time is counted in  *)
(* units of 3 seconds, ratios in percent.                                  *)
(***************************************************************************)

\* BWC_ENABLED, BWC_MODE, BWC_BURNER_RATIO (0.3), BWC_EMERGENCY_BURNER_RATIO
\* (0.7), BWC_BURNER_CREATION_INTERVAL (5 s .. 300 s, default 30 s), and the
\* number of relayer keypairs of the WalletManager.
DefaultGateConfig ==
    [ bwcEnabled                |-> TRUE,
      bwcMode                   |-> "hybrid",
      bwcBurnerRatio            |-> 30,
      bwcEmergencyBurnerRatio   |-> 70,
      bwcBurnerCreationInterval |-> 10,
      relayerKeypairs           |-> 1 ]

\* The configurations explored: the gate's slice and the burner slice of
\* Part III (a target pool of 2 or 3 burners, seasoning on or off).
GateRuns ==
    { [gate |-> DefaultGateConfig, bwc |-> DefaultBwcConfig],
      [gate |-> [DefaultGateConfig EXCEPT !.bwcBurnerCreationInterval = 100],
       bwc  |-> [DefaultBwcConfig EXCEPT !.bwcMaxBurnerWallets = 3,
                                         !.bwcBurnerLifetimeTxs = 2]],
      [gate |-> [DefaultGateConfig EXCEPT !.relayerKeypairs = 0],
       bwc  |-> DefaultBwcConfig],
      [gate |-> [DefaultGateConfig EXCEPT !.bwcMode = "disabled"],
       bwc  |-> DefaultBwcConfig],
      [gate |-> DefaultGateConfig,
       bwc  |-> [DefaultBwcConfig EXCEPT !.enableBurnerSeasoning = TRUE]] }

\* this.maxFundingFailures, and the pause of 300000 ms.
maxFundingFailures == 10
CREATION_PAUSE == 100

\* The hour after which cleanupBurners drops a cooldown entry.
COOLDOWN_EXPIRY == 1200

\* Date.now() when the bot starts.
GateStartTime == 10000

\* The fields of the manager that ensureMinimumBurners keeps, after the
\* constructor.
NewCreationState ==
    [ lastCreationCheck          |-> 0,
      consecutiveFundingFailures |-> 0,
      creationPausedUntil        |-> 0 ]

\* No ensureMinimumBurners invocation is running, no burner is in a cycle.
IdleGateTasks ==
    [ ensure    |-> [pc |-> "idle", now |-> 0, toCreate |-> 0, i |-> 0],
      available |-> {} ]

NoGateCall == [valid |-> FALSE, count |-> 0, emergencyMode |-> FALSE, result |-> {}]

\* The history of the step just taken: the gate at which an
\* ensureMinimumBurners invocation returned or went on, how a
\* createBurnerWallet ended, what a getAvailableBurners call returned.
EmptyGateLog == [gate |-> "none", create |-> "none", call |-> NoGateCall]

\* ensureMinimumBurners 311
toCreate_Deficit(targetCount, activeCount) == targetCount - activeCount

toCreate(targetCount, activeCount) == Min(targetCount - activeCount, 2)

\* ensureMinimumBurners 271-272: creation is paused at the time now.
CreationPaused(c, now) ==
    /\ c.consecutiveFundingFailures >= maxFundingFailures
    /\ now < c.creationPausedUntil

\* ensureMinimumBurners 271-284: the counter after the pause gate let the
\* invocation through.
AfterPauseGate(c) ==
    IF c.consecutiveFundingFailures >= maxFundingFailures
    THEN [c EXCEPT !.consecutiveFundingFailures = 0]
    ELSE c

\* ensureMinimumBurners 324-327: createBurnerWallet returned true.
CreationSucceeded(c) == [c EXCEPT !.consecutiveFundingFailures = 0]

\* ensureMinimumBurners 328-342: createBurnerWallet returned false.
CreationFailed_NoDeadline(c, now) ==
    [c EXCEPT !.consecutiveFundingFailures = @ + 1]

CreationFailed(c, now) ==
    LET failures == c.consecutiveFundingFailures + 1 IN
    [c EXCEPT !.consecutiveFundingFailures = failures,
              !.creationPausedUntil =
                  IF failures >= maxFundingFailures THEN now + CREATION_PAUSE ELSE @]

\* Burner churning is on for the callers of the manager (init 145, 161; the
\* run loop 152).
ChurningOn == gateConfig.bwcEnabled /\ gateConfig.bwcMode # "disabled"

\* ensureMinimumBurners up to its loop (268-318).
EnsureBegins ==
    /\ ChurningOn
    /\ gateTasks.ensure.pc = "idle"
    /\ gateTasks.available = {}
    /\ LET now         == gateClock
           passed      == AfterPauseGate(creation)
           activeCount == getActiveBurnerCount(bwm)
           targetCount == bwcConfig.bwcMaxBurnerWallets
       IN
        IF CreationPaused(creation, now)
        THEN /\ gateLog' = [EmptyGateLog EXCEPT !.gate = "paused"]
             /\ UNCHANGED <<creation, gateTasks>>
        ELSE IF now - passed.lastCreationCheck < gateConfig.bwcBurnerCreationInterval
        THEN /\ gateLog' = [EmptyGateLog EXCEPT !.gate = "interval"]
             /\ creation' = passed
             /\ UNCHANGED gateTasks
        ELSE IF activeCount >= targetCount
        THEN /\ gateLog' = [EmptyGateLog EXCEPT !.gate = "sufficient"]
             /\ creation' = [passed EXCEPT !.lastCreationCheck = now]
             /\ UNCHANGED gateTasks
        ELSE IF gateConfig.relayerKeypairs = 0
        THEN /\ gateLog' = [EmptyGateLog EXCEPT !.gate = "relayers"]
             /\ creation' = [passed EXCEPT !.lastCreationCheck = now]
             /\ UNCHANGED gateTasks
        ELSE /\ gateLog' = [EmptyGateLog EXCEPT !.gate = "creating"]
             /\ creation' = passed
             /\ gateTasks' = [gateTasks EXCEPT !.ensure =
                    [pc |-> "loop", now |-> now,
                     toCreate |-> toCreate(targetCount, activeCount), i |-> 0]]
    /\ UNCHANGED <<gateConfig, gateClock>>
    /\ UNCHANGED <<breakerVars, fundingVars, burnerVars, rebalancerVars, poolVars, cooldownVars, orchestratorVars>>

\* Keypair.generate(): a key the manager does not hold.
FreshBurner(m) == CHOOSE b \in 1..(MaxBurners + 1) :
    /\ b \notin m.burnerWallets
    /\ \A a \in 1..(MaxBurners + 1) : a \notin m.burnerWallets => b <= a

\* The loop of ensureMinimumBurners after the iteration i: it ends after
\* toCreate iterations or at the break of 341, and 367 records the check.
AfterIteration(c, e, broke) ==
    IF broke \/ e.i + 1 >= e.toCreate
    THEN [creation |-> [c EXCEPT !.lastCreationCheck = e.now],
          ensure   |-> [pc |-> "idle", now |-> 0, toCreate |-> 0, i |-> 0]]
    ELSE [creation |-> c, ensure |-> [e EXCEPT !.i = @ + 1]]

\* One iteration of the loop (320-365): createBurnerWallet creates and funds
\* a burner, or removes it again when the funding failed.
EnsureCreates(success) ==
    /\ gateTasks.ensure.pc = "loop"
    /\ success => /\ Cardinality(bwm.burnerWallets) < MaxBurners
                  /\ bwm.stats.created < MaxGateCreated
    /\ LET e       == gateTasks.ensure
           pubkey  == FreshBurner(bwm)
           counted == IF success THEN CreationSucceeded(creation)
                      ELSE CreationFailed(creation, e.now)
           broke   == ~success /\ counted.consecutiveFundingFailures >= maxFundingFailures
           after   == AfterIteration(counted, e, broke)
       IN
        /\ bwm' = IF success THEN InsertBurner(bwm, pubkey)
                  ELSE RemoveUnfunded(InsertBurner(bwm, pubkey), pubkey)
        /\ creation' = after.creation
        /\ gateTasks' = [gateTasks EXCEPT !.ensure = after.ensure]
        /\ gateLog' = [EmptyGateLog EXCEPT
                !.create = IF success THEN "success" ELSE "failure"]
    /\ UNCHANGED <<gateConfig, gateClock>>
    /\ UNCHANGED <<bwcConfig, burnerTasks, burnerWorld, burnerLog>>
    /\ UNCHANGED <<breakerVars, fundingVars, rebalancerVars, poolVars, cooldownVars, orchestratorVars>>

\* getBurnerCooldown(txCount): base is the draw of getRandomNumberBetween
\* (30 s .. 60 s), the multiplier 1 + txCount * 0.1 is counted in tenths.
getBurnerCooldown(txCount, base) == (base * (10 + txCount)) \div 10

\* The draws that decide the test of 210, which is monotone in the draw; the
\* draw for a burner that fails another test of the filter decides nothing.
BurnerBaseCooldowns == {10, 20}

\* Math.ceil(count * ratio)
CeilOfRatio(count, ratio) == (count * ratio + 99) \div 100

\* getAvailableBurners 257-259
TargetCount_Full(count, emergencyMode) == count

TargetCount(count, emergencyMode) ==
    IF emergencyMode THEN CeilOfRatio(count, gateConfig.bwcEmergencyBurnerRatio)
    ELSE CeilOfRatio(count, gateConfig.bwcBurnerRatio)

\* getAvailableBurners 203-228: the burners that pass the filter.
AvailableBurners(m, now, draws) ==
    {b \in Eligible(m) :
        now - MapGet(m.burnerCooldowns, b, 0)
            >= getBurnerCooldown(MapGet(m.burnerTradeCount, b, 0), draws[b])}

\* cleanupBurners(now): the cooldown entries older than an hour.
StaleCooldowns(m, now) ==
    {b \in DOMAIN m.burnerCooldowns : now - m.burnerCooldowns[b] > COOLDOWN_EXPIRY}

\* getAvailableBurners(count, emergencyMode); the burners returned go into
\* their wallet cycles.  (Which of the burners that pass the filter are the
\* first in the Map is left open.)
GetAvailableBurners(count, emergencyMode, draws) ==
    /\ gateTasks.ensure.pc = "idle"
    /\ gateTasks.available = {}
    /\ IF ~gateConfig.bwcEnabled \/ gateConfig.bwcMode = "disabled"
       THEN /\ bwm' = bwm
            /\ gateLog' = [EmptyGateLog EXCEPT !.call =
                    [valid |-> TRUE, count |-> count,
                     emergencyMode |-> emergencyMode, result |-> {}]]
            /\ UNCHANGED gateTasks
       ELSE LET cleaned   == cleanupBurners(bwm, {}, StaleCooldowns(bwm, gateClock))
                available == AvailableBurners(cleaned, gateClock, draws)
                n         == Min(Min(TargetCount(count, emergencyMode), count),
                                 Cardinality(available))
            IN  /\ bwm' = cleaned
                /\ \E result \in SUBSET available :
                      /\ Cardinality(result) = n
                      /\ gateTasks' = [gateTasks EXCEPT !.available = result]
                      /\ gateLog' = [EmptyGateLog EXCEPT !.call =
                              [valid |-> TRUE, count |-> count,
                               emergencyMode |-> emergencyMode, result |-> result]]
    /\ UNCHANGED <<gateConfig, creation, gateClock>>
    /\ UNCHANGED <<bwcConfig, burnerTasks, burnerWorld, burnerLog>>
    /\ UNCHANGED <<breakerVars, fundingVars, rebalancerVars, poolVars, cooldownVars, orchestratorVars>>

\* markBurnerUsed(pubkey, txCount) with the time of use that Part III
\* leaves out.
markBurnerUsedAt(m, pubkey, txCount, now) ==
    IF pubkey \notin m.burnerWallets THEN m
    ELSE [markBurnerUsed(m, pubkey, txCount) EXCEPT
              !.burnerCooldowns = MapSet(@, pubkey, now)]

\* processWalletCycle of a burner: the cycle ends with markBurnerUsed, or it
\* is skipped or throws and marks nothing.
GateCycleEnds(b, completed) ==
    /\ b \in gateTasks.available
    /\ bwm' = IF completed
              THEN markBurnerUsedAt(bwm, b, bwcConfig.numActionsPerCycle, gateClock)
              ELSE bwm
    /\ burnerTasks' = [burnerTasks EXCEPT !.timers =
            IF bwm'.pendingDisposal # bwm.pendingDisposal THEN @ \cup {b} ELSE @]
    /\ gateTasks' = [gateTasks EXCEPT !.available = @ \ {b}]
    /\ gateLog' = EmptyGateLog
    /\ UNCHANGED <<gateConfig, creation, gateClock>>
    /\ UNCHANGED <<bwcConfig, burnerWorld, burnerLog>>
    /\ UNCHANGED <<breakerVars, fundingVars, rebalancerVars, poolVars, cooldownVars, orchestratorVars>>

\* The disposal timer of a burner fired and disposeBurnerWallet has deleted
\* its records (706-716).
GateBurnerDisposed(b) ==
    /\ b \in burnerTasks.timers
    /\ b \notin gateTasks.available
    /\ bwm' = Disposed(bwm, b)
    /\ burnerTasks' = [burnerTasks EXCEPT !.timers = @ \ {b}]
    /\ gateLog' = EmptyGateLog
    /\ UNCHANGED <<gateConfig, creation, gateTasks, gateClock>>
    /\ UNCHANGED <<bwcConfig, burnerWorld, burnerLog>>
    /\ UNCHANGED <<breakerVars, fundingVars, rebalancerVars, poolVars, cooldownVars, orchestratorVars>>

\* The time explored: MaxGateIntervals creation intervals.
GateHorizon ==
    GateStartTime + MaxGateIntervals * gateConfig.bwcBurnerCreationInterval

\* Time passes: a creation interval, or the pause, at a time.
GateTick(d) ==
    /\ gateClock + d <= GateHorizon
    /\ gateClock' = gateClock + d
    /\ gateLog' = EmptyGateLog
    /\ UNCHANGED <<gateConfig, creation, gateTasks>>
    /\ UNCHANGED <<breakerVars, fundingVars, burnerVars, rebalancerVars, poolVars, cooldownVars, orchestratorVars>>

NextGate ==
    \/ EnsureBegins
    \/ \E success \in BOOLEAN : EnsureCreates(success)
    \/ \E count \in 0..MaxCount : \E emergencyMode \in BOOLEAN :
       \E draws \in [Eligible(bwm) -> BurnerBaseCooldowns] :
           GetAvailableBurners(count, emergencyMode, draws)
    \/ \E b \in gateTasks.available : \E completed \in BOOLEAN :
           GateCycleEnds(b, completed)
    \/ \E b \in burnerTasks.timers : GateBurnerDisposed(b)
    \/ \E d \in {gateConfig.bwcBurnerCreationInterval, CREATION_PAUSE} : GateTick(d)

(***************************************************************************)
(* Part VII: getWalletCooldown as a function of the trade count            *)
(*                                                                         *)
(* getWalletCooldown is called for two trade counts of a wallet and the    *)
(* same draw of the base cooldown.  Time is counted in units of 3 minutes  *)
(* as in Part V.                                                           *)
(***************************************************************************)

\* The wallet whose cooldown is asked for.
CooldownWallet == 1

\* The calls that can be made: two trade counts a < b and a base cooldown
\* that getRandomNumberBetween may draw.
CooldownCalls ==
    [ tradeCounts : {c \in (0..MaxTradeCount) \X (0..MaxTradeCount) : c[1] < c[2]},
      base        : BaseCooldowns,
      cooldowns   : {<<>>} ]

NoCooldownCall == [tradeCounts |-> <<0, 1>>, base |-> 0, cooldowns |-> <<>>]

\* A WalletManager on which the wallet has traded count times.
ManagerWithCount(count) ==
    [NewWalletManager EXCEPT !.walletTradeCount = MapSet(@, CooldownWallet, count)]

\* getWalletCooldown(walletKey) for each of the two trade counts.
GetWalletCooldowns ==
    /\ cooldownCall.cooldowns = <<>>
    /\ cooldownCall' = [cooldownCall EXCEPT !.cooldowns =
            [i \in 1..2 |-> getWalletCooldown(ManagerWithCount(cooldownCall.tradeCounts[i]),
                                              CooldownWallet, cooldownCall.base)]]
    /\ UNCHANGED <<breakerVars, fundingVars, burnerVars, rebalancerVars, poolVars, gateVars, orchestratorVars>>

NextCooldown == GetWalletCooldowns

(***************************************************************************)
(* Part VIII: the run loop of VolumeBoosterBot                             *)
(*                                                                         *)
(* runLoop, handleCircuitBreaker and stop, one step per stretch of code    *)
(* between two awaits.  The breaker is the one of Part I, evaluated by     *)
(* RunChecks on the outcomes that the wallet cycles of the batches record. *)
(* The selection of the batch, the wallet cycles and the rebalance are     *)
(* followed only as far as the loop sees them.                             *)
(***************************************************************************)

\* BWC_ENABLED, ENABLE_REBALANCING and REBALANCE_INTERVAL, and whether every
\* record of the wallet file has a name or a pubkey (a record may have
\* neither: normalizeWalletData derives what is missing): the runs explored.
OrchestratorRuns ==
    { [bwcEnabled |-> TRUE,  enableRebalancing |-> TRUE,  rebalanceInterval |-> 1,
       walletFileNamed |-> TRUE],
      [bwcEnabled |-> FALSE, enableRebalancing |-> TRUE,  rebalanceInterval |-> 2,
       walletFileNamed |-> TRUE],
      [bwcEnabled |-> TRUE,  enableRebalancing |-> FALSE, rebalanceInterval |-> 1,
       walletFileNamed |-> FALSE] }

DefaultOrchestratorRun ==
    [bwcEnabled |-> TRUE, enableRebalancing |-> TRUE, rebalanceInterval |-> 1,
     walletFileNamed |-> TRUE]

\* The bot after its constructor (38-63): where the run loop is, isRunning,
\* what handleCircuitBreaker returned in this iteration, cycleCount, the
\* outcomes recorded by the batch in progress, whether an evaluation has
\* returned tripped, whether stop() was called from the catch block of the
\* loop, and the steps of the shutdown that were performed.
NewBot ==
    [ pc         |-> "constructed",
      isRunning  |-> FALSE,
      evaluation |-> "none",
      cycleCount |-> 0,
      trades     |-> 0,
      tripped    |-> FALSE,
      inCatch    |-> FALSE,
      shutdown   |-> {} ]

\* init 69-85: isRunning is set, the baseline of the sink is read, runLoop starts.
RunLoopStarts ==
    /\ bot.pc = "constructed"
    /\ botState = "constructed"
    /\ botState' = "running"
    /\ \E balance \in Baselines :
          initialSinkBalance' = IF sinkKeypair THEN balance ELSE initialSinkBalance
    /\ bot' = [bot EXCEPT !.pc = "top", !.isRunning = TRUE]
    /\ UNCHANGED <<config, sinkKeypair, consecutiveFailures, recentTrades,
                   checkCounter, outcomes, last, fresh, botConfig>>
    /\ UNCHANGED <<fundingVars, burnerVars, rebalancerVars, poolVars, gateVars, cooldownVars>>

\* handleCircuitBreaker 347: stop() is called for a tripped evaluation.
StopsWhen(circuitCheck) == circuitCheck.tripped

\* stop 392-394 up to its first await: isRunning is cleared.
StopBegins(b) == [b EXCEPT !.isRunning = FALSE, !.pc = "stopDispose"]

\* runLoop 148-150 and handleCircuitBreaker 345-355: the loop tests isRunning
\* and evaluates the breaker; a tripped evaluation starts stop().
handleCircuitBreaker ==
    /\ bot.pc = "top"
    /\ bot.isRunning
    /\ checkCounter < MaxChecks
    /\ \E current \in Balances :
          LET r == RunChecks(current)
          IN  /\ checkCounter' = r.counter
              /\ last' = [tripped |-> r.tripped, reason |-> r.reason, checks |-> r.checks,
                          queried |-> r.queried, current |-> r.current]
              /\ bot' = IF StopsWhen(r)
                        THEN [StopBegins(bot) EXCEPT !.evaluation = "tripped",
                                                     !.tripped = TRUE]
                        ELSE [bot EXCEPT !.pc = "select", !.evaluation = "clear"]
    /\ fresh' = TRUE
    /\ UNCHANGED <<config, sinkKeypair, botState, consecutiveFailures, recentTrades,
                   initialSinkBalance, outcomes, botConfig>>
    /\ UNCHANGED <<fundingVars, burnerVars, rebalancerVars, poolVars, gateVars, cooldownVars>>

\* checkEmergencyStopLoss 997: the balance query of the sink rejects; nothing
\* catches it before the catch block of the loop (252).
handleCircuitBreakerThrows ==
    /\ bot.pc = "top"
    /\ bot.isRunning
    /\ checkCounter < MaxChecks
    /\ config.enableCircuitBreaker
    /\ ~checkConsecutiveFailures.tripped
    /\ ~checkFailureRate.tripped
    /\ QueriesBalance(checkCounter + 1)
    /\ checkCounter' = checkCounter + 1
    /\ bot' = [bot EXCEPT !.pc = "caught"]
    /\ UNCHANGED <<config, sinkKeypair, botState, consecutiveFailures, recentTrades,
                   initialSinkBalance, outcomes, last, fresh, botConfig>>
    /\ UNCHANGED <<fundingVars, burnerVars, rebalancerVars, poolVars, gateVars, cooldownVars>>

\* runLoop 152-226: the batch is put together.  An empty batch ends the
\* iteration (218-222); otherwise cycleCount is incremented and processBatch
\* starts the wallet cycles.
LoopSelectsBatch(empty) ==
    /\ bot.pc = "select"
    /\ bot.cycleCount < MaxCycles
    /\ bot' = IF empty
              THEN [bot EXCEPT !.pc = "top", !.evaluation = "none"]
              ELSE [bot EXCEPT !.pc = "batch", !.cycleCount = @ + 1, !.trades = 0]
    /\ UNCHANGED <<breakerVars, botConfig>>
    /\ UNCHANGED <<fundingVars, burnerVars, rebalancerVars, poolVars, gateVars, cooldownVars>>

\* runLoop 168: loadActiveBatch rejects (the roster cannot be loaded).
LoadActiveBatchThrows ==
    /\ bot.pc = "select"
    /\ bot' = [bot EXCEPT !.pc = "caught"]
    /\ UNCHANGED <<breakerVars, botConfig>>
    /\ UNCHANGED <<fundingVars, burnerVars, rebalancerVars, poolVars, gateVars, cooldownVars>>

\* processWalletCycle 420: a wallet cycle of the batch records the outcome of
\* a trade (recordTradeResult of Part I).
WalletCycleTrades(success) ==
    /\ bot.pc = "batch"
    /\ bot.trades < MaxBatchTrades
    /\ Len(outcomes) < MaxOutcomes
    /\ IF ~config.enableCircuitBreaker
         THEN UNCHANGED <<recentTrades, consecutiveFailures, outcomes, fresh>>
         ELSE /\ recentTrades' = PushRecentTrades(success)
              /\ consecutiveFailures' = NextConsecutiveFailures(success)
              /\ outcomes' = Append(outcomes, success)
              /\ fresh' = FALSE
    /\ bot' = [bot EXCEPT !.trades = @ + 1]
    /\ UNCHANGED <<config, sinkKeypair, botState, initialSinkBalance, checkCounter,
                   last, botConfig>>
    /\ UNCHANGED <<fundingVars, burnerVars, rebalancerVars, poolVars, gateVars, cooldownVars>>

\* runLoop 241: the rebalance is due after this batch.
RebalanceDue(b) ==
    botConfig.enableRebalancing /\ b.cycleCount % botConfig.rebalanceInterval = 0

\* processBatch 283-284 and runLoop 228-241: every cycle has settled; the
\* rebalance is started when it is due, else the iteration ends (250-251).
ProcessBatchEnds ==
    /\ bot.pc = "batch"
    /\ bot' = IF RebalanceDue(bot)
              THEN [bot EXCEPT !.pc = "rebalance"]
              ELSE [bot EXCEPT !.pc = "top", !.evaluation = "none"]
    /\ UNCHANGED <<breakerVars, botConfig>>
    /\ UNCHANGED <<fundingVars, burnerVars, rebalancerVars, poolVars, gateVars, cooldownVars>>

\* runLoop 241-251: rebalanceWallets returns, or rejects and the rejection is
\* logged (246); the iteration ends.
RebalanceSettles ==
    /\ bot.pc = "rebalance"
    /\ bot' = [bot EXCEPT !.pc = "top", !.evaluation = "none"]
    /\ UNCHANGED <<breakerVars, botConfig>>
    /\ UNCHANGED <<fundingVars, burnerVars, rebalancerVars, poolVars, gateVars, cooldownVars>>

\* stop 396-400: emergencyDisposeAll has settled (it never rejects), if the
\* burners are enabled; closeAllTokenAccounts starts reading the wallet file.
StopDisposesBurners ==
    /\ bot.pc = "stopDispose"
    /\ bot' = [bot EXCEPT !.pc = "stopClose",
                          !.shutdown = IF botConfig.bwcEnabled
                                       THEN @ \cup {"dispose"} ELSE @]
    /\ UNCHANGED <<breakerVars, botConfig>>
    /\ UNCHANGED <<fundingVars, burnerVars, rebalancerVars, poolVars, gateVars, cooldownVars>>

\* How stop() ends once its last await has returned: after stop() from
\* handleCircuitBreaker, process.exit(1) at 352; from the catch block, at 265.
StopReturns(b) == [b EXCEPT !.pc = "exited"]

\* How a rejection of stop() ends: from handleCircuitBreaker it reaches the
\* catch block of the loop (252); from the catch block itself, runLoop rejects.
StopRejects(b) ==
    IF b.inCatch THEN [b EXCEPT !.pc = "rejected"] ELSE [b EXCEPT !.pc = "caught"]

\* closeAllTokenAccounts 584-599 and stop 401: the wallet file is read, the
\* accounts of each chunk are closed (errors are caught per wallet); with a
\* sink, withdrawAllFunds starts.
closeAllTokenAccounts ==
    /\ bot.pc = "stopClose"
    /\ botConfig.walletFileNamed
    /\ bot' = IF sinkKeypair
              THEN [bot EXCEPT !.pc = "stopWithdraw", !.shutdown = @ \cup {"close"}]
              ELSE StopReturns([bot EXCEPT !.shutdown = @ \cup {"close"}])
    /\ UNCHANGED <<breakerVars, botConfig>>
    /\ UNCHANGED <<fundingVars, burnerVars, rebalancerVars, poolVars, gateVars, cooldownVars>>

\* closeAllTokenAccounts 586-591, outside any try block: loadWallets rejects
\* (the file cannot be read), or w.pubkey.slice throws for a record without a
\* name and a pubkey.  stop() rejects before withdrawAllFunds.
closeAllTokenAccountsThrows ==
    /\ bot.pc = "stopClose"
    /\ bot' = StopRejects(bot)
    /\ UNCHANGED <<breakerVars, botConfig>>
    /\ UNCHANGED <<fundingVars, burnerVars, rebalancerVars, poolVars, gateVars, cooldownVars>>

\* withdrawAllFunds 417-468 and stop 405-411: the wallets are swept chunk by
\* chunk (a failed sweep is counted, not thrown); stop() returns.
withdrawAllFunds ==
    /\ bot.pc = "stopWithdraw"
    /\ bot' = StopReturns([bot EXCEPT !.shutdown = @ \cup {"withdraw"}])
    /\ UNCHANGED <<breakerVars, botConfig>>
    /\ UNCHANGED <<fundingVars, burnerVars, rebalancerVars, poolVars, gateVars, cooldownVars>>

\* withdrawAllFunds 459: after the sweeps, the balance query of the sink
\* rejects, outside any try block.
withdrawAllFundsThrows ==
    /\ bot.pc = "stopWithdraw"
    /\ bot' = StopRejects([bot EXCEPT !.shutdown = @ \cup {"withdraw"}])
    /\ UNCHANGED <<breakerVars, botConfig>>
    /\ UNCHANGED <<fundingVars, burnerVars, rebalancerVars, poolVars, gateVars, cooldownVars>>

\* runLoop 252-267 and 148: the catch block logs and waits; an error whose
\* message holds 'fatal' or 'critical' (the text of an RPC error is not the
\* program's) starts stop(); otherwise the loop tests isRunning again.
LoopCatches(fatal) ==
    /\ bot.pc = "caught"
    /\ bot' = IF fatal THEN [StopBegins(bot) EXCEPT !.inCatch = TRUE]
              ELSE IF bot.isRunning THEN [bot EXCEPT !.pc = "top", !.evaluation = "none"]
              ELSE [bot EXCEPT !.pc = "returned"]
    /\ UNCHANGED <<breakerVars, botConfig>>
    /\ UNCHANGED <<fundingVars, burnerVars, rebalancerVars, poolVars, gateVars, cooldownVars>>

NextOrchestrator ==
    \/ RunLoopStarts
    \/ handleCircuitBreaker
    \/ handleCircuitBreakerThrows
    \/ \E empty \in BOOLEAN : LoopSelectsBatch(empty)
    \/ LoadActiveBatchThrows
    \/ \E success \in BOOLEAN : WalletCycleTrades(success)
    \/ ProcessBatchEnds
    \/ RebalanceSettles
    \/ StopDisposesBurners
    \/ closeAllTokenAccounts
    \/ closeAllTokenAccountsThrows
    \/ withdrawAllFunds
    \/ withdrawAllFundsThrows
    \/ \E fatal \in BOOLEAN : LoopCatches(fatal)

(***************************************************************************)
(* The specifications.  The part a specification does not exercise stays   *)
(* in the state its constructor leaves.                                    *)
(***************************************************************************)
InitBreakerRun ==
    /\ config \in ConfigChoices
    /\ sinkKeypair \in BOOLEAN
    /\ botState = "constructed"
    /\ consecutiveFailures = 0
    /\ recentTrades = <<>>
    /\ initialSinkBalance = 0
    /\ checkCounter = 0
    /\ outcomes = <<>>
    /\ last = NoCheck
    /\ fresh = FALSE
    /\ funded = {}
    /\ fundingLocks = {}
    /\ calls = [c \in Calls |-> IdleCall]
    /\ chainBalance = [w \in Wallets |-> 0]
    /\ txs = <<>>
    /\ bwcConfig = DefaultBwcConfig
    /\ bwm = NewBurnerWalletManager
    /\ burnerTasks = IdleTasks
    /\ burnerWorld = FreshWorld
    /\ burnerLog = EmptyLog
    /\ rebalanceConfig = DefaultRebalanceConfig
    /\ rebalancer = NotRebalancing
    /\ pool = [balance |-> <<>>, sink |-> 0]
    /\ rebalanceLog = EmptyRebalanceLog
    /\ poolConfig = DefaultPoolConfig
    /\ walletFile = <<>>
    /\ wm = NewWalletManager
    /\ poolClock = PoolStartTime
    /\ poolTasks = IdlePoolTasks
    /\ poolLog = EmptyPoolLog
    /\ gateConfig = DefaultGateConfig
    /\ creation = NewCreationState
    /\ gateTasks = IdleGateTasks
    /\ gateClock = GateStartTime
    /\ gateLog = EmptyGateLog
    /\ cooldownCall = NoCooldownCall
    /\ botConfig = DefaultOrchestratorRun
    /\ bot = NewBot

InitFundingRun ==
    /\ config = DefaultConfig
    /\ sinkKeypair = FALSE
    /\ botState = "constructed"
    /\ consecutiveFailures = 0
    /\ recentTrades = <<>>
    /\ initialSinkBalance = 0
    /\ checkCounter = 0
    /\ outcomes = <<>>
    /\ last = NoCheck
    /\ fresh = FALSE
    /\ funded = {}
    /\ fundingLocks = {}
    /\ calls = [c \in Calls |-> IdleCall]
    /\ chainBalance \in [Wallets -> StartBalances]
    /\ txs = <<>>
    /\ bwcConfig = DefaultBwcConfig
    /\ bwm = NewBurnerWalletManager
    /\ burnerTasks = IdleTasks
    /\ burnerWorld = FreshWorld
    /\ burnerLog = EmptyLog
    /\ rebalanceConfig = DefaultRebalanceConfig
    /\ rebalancer = NotRebalancing
    /\ pool = [balance |-> <<>>, sink |-> 0]
    /\ rebalanceLog = EmptyRebalanceLog
    /\ poolConfig = DefaultPoolConfig
    /\ walletFile = <<>>
    /\ wm = NewWalletManager
    /\ poolClock = PoolStartTime
    /\ poolTasks = IdlePoolTasks
    /\ poolLog = EmptyPoolLog
    /\ gateConfig = DefaultGateConfig
    /\ creation = NewCreationState
    /\ gateTasks = IdleGateTasks
    /\ gateClock = GateStartTime
    /\ gateLog = EmptyGateLog
    /\ cooldownCall = NoCooldownCall
    /\ botConfig = DefaultOrchestratorRun
    /\ bot = NewBot

InitTranchesRun ==
    /\ config = DefaultConfig
    /\ sinkKeypair = FALSE
    /\ botState = "constructed"
    /\ consecutiveFailures = 0
    /\ recentTrades = <<>>
    /\ initialSinkBalance = 0
    /\ checkCounter = 0
    /\ outcomes = <<>>
    /\ last = NoCheck
    /\ fresh = FALSE
    /\ funded = {}
    /\ fundingLocks = {}
    /\ calls = [c \in Calls |-> IdleCall]
    /\ \E b \in StartBalances : chainBalance = [w \in Wallets |-> IF w = "w1" THEN b ELSE 0]
    /\ txs = <<>>
    /\ bwcConfig = DefaultBwcConfig
    /\ bwm = NewBurnerWalletManager
    /\ burnerTasks = IdleTasks
    /\ burnerWorld = FreshWorld
    /\ burnerLog = EmptyLog
    /\ rebalanceConfig = DefaultRebalanceConfig
    /\ rebalancer = NotRebalancing
    /\ pool = [balance |-> <<>>, sink |-> 0]
    /\ rebalanceLog = EmptyRebalanceLog
    /\ poolConfig = DefaultPoolConfig
    /\ walletFile = <<>>
    /\ wm = NewWalletManager
    /\ poolClock = PoolStartTime
    /\ poolTasks = IdlePoolTasks
    /\ poolLog = EmptyPoolLog
    /\ gateConfig = DefaultGateConfig
    /\ creation = NewCreationState
    /\ gateTasks = IdleGateTasks
    /\ gateClock = GateStartTime
    /\ gateLog = EmptyGateLog
    /\ cooldownCall = NoCooldownCall
    /\ botConfig = DefaultOrchestratorRun
    /\ bot = NewBot

InitBurnerRun ==
    /\ sinkKeypair \in BOOLEAN
    /\ config = DefaultConfig
    /\ botState = "constructed"
    /\ consecutiveFailures = 0
    /\ recentTrades = <<>>
    /\ initialSinkBalance = 0
    /\ checkCounter = 0
    /\ outcomes = <<>>
    /\ last = NoCheck
    /\ fresh = FALSE
    /\ funded = {}
    /\ fundingLocks = {}
    /\ calls = [c \in Calls |-> IdleCall]
    /\ chainBalance = [w \in Wallets |-> 0]
    /\ txs = <<>>
    /\ bwcConfig \in BwcConfigChoices
    /\ bwm = NewBurnerWalletManager
    /\ burnerTasks = IdleTasks
    /\ burnerWorld = FreshWorld
    /\ burnerLog = EmptyLog
    /\ rebalanceConfig = DefaultRebalanceConfig
    /\ rebalancer = NotRebalancing
    /\ pool = [balance |-> <<>>, sink |-> 0]
    /\ rebalanceLog = EmptyRebalanceLog
    /\ poolConfig = DefaultPoolConfig
    /\ walletFile = <<>>
    /\ wm = NewWalletManager
    /\ poolClock = PoolStartTime
    /\ poolTasks = IdlePoolTasks
    /\ poolLog = EmptyPoolLog
    /\ gateConfig = DefaultGateConfig
    /\ creation = NewCreationState
    /\ gateTasks = IdleGateTasks
    /\ gateClock = GateStartTime
    /\ gateLog = EmptyGateLog
    /\ cooldownCall = NoCooldownCall
    /\ botConfig = DefaultOrchestratorRun
    /\ bot = NewBot

\* The runs of the burner manager that are followed to their end: a burner
\* is pending disposal after one cycle.
InitBurnerFairRun ==
    /\ sinkKeypair \in BOOLEAN
    /\ config = DefaultConfig
    /\ botState = "constructed"
    /\ consecutiveFailures = 0
    /\ recentTrades = <<>>
    /\ initialSinkBalance = 0
    /\ checkCounter = 0
    /\ outcomes = <<>>
    /\ last = NoCheck
    /\ fresh = FALSE
    /\ funded = {}
    /\ fundingLocks = {}
    /\ calls = [c \in Calls |-> IdleCall]
    /\ chainBalance = [w \in Wallets |-> 0]
    /\ txs = <<>>
    /\ bwcConfig \in {c \in BwcConfigChoices : c.bwcBurnerLifetimeTxs = ShortLifetime}
    /\ bwm = NewBurnerWalletManager
    /\ burnerTasks = IdleTasks
    /\ burnerWorld = FreshWorld
    /\ burnerLog = EmptyLog
    /\ rebalanceConfig = DefaultRebalanceConfig
    /\ rebalancer = NotRebalancing
    /\ pool = [balance |-> <<>>, sink |-> 0]
    /\ rebalanceLog = EmptyRebalanceLog
    /\ poolConfig = DefaultPoolConfig
    /\ walletFile = <<>>
    /\ wm = NewWalletManager
    /\ poolClock = PoolStartTime
    /\ poolTasks = IdlePoolTasks
    /\ poolLog = EmptyPoolLog
    /\ gateConfig = DefaultGateConfig
    /\ creation = NewCreationState
    /\ gateTasks = IdleGateTasks
    /\ gateClock = GateStartTime
    /\ gateLog = EmptyGateLog
    /\ cooldownCall = NoCooldownCall
    /\ botConfig = DefaultOrchestratorRun
    /\ bot = NewBot

InitRebalancerRun ==
    /\ sinkKeypair \in BOOLEAN
    /\ config = DefaultConfig
    /\ botState = "constructed"
    /\ consecutiveFailures = 0
    /\ recentTrades = <<>>
    /\ initialSinkBalance = 0
    /\ checkCounter = 0
    /\ outcomes = <<>>
    /\ last = NoCheck
    /\ fresh = FALSE
    /\ funded = {}
    /\ fundingLocks = {}
    /\ calls = [c \in Calls |-> IdleCall]
    /\ chainBalance = [w \in Wallets |-> 0]
    /\ txs = <<>>
    /\ bwcConfig = DefaultBwcConfig
    /\ bwm = NewBurnerWalletManager
    /\ burnerTasks = IdleTasks
    /\ burnerWorld = FreshWorld
    /\ burnerLog = EmptyLog
    /\ rebalanceConfig \in RebalanceConfigChoices
    /\ rebalancer = NotRebalancing
    /\ \E n \in 2..BatchSize : \E b \in [1..n -> PoolBalances] :
           pool = [balance |-> b, sink |-> 0]
    /\ rebalanceLog = EmptyRebalanceLog
    /\ poolConfig = DefaultPoolConfig
    /\ walletFile = <<>>
    /\ wm = NewWalletManager
    /\ poolClock = PoolStartTime
    /\ poolTasks = IdlePoolTasks
    /\ poolLog = EmptyPoolLog
    /\ gateConfig = DefaultGateConfig
    /\ creation = NewCreationState
    /\ gateTasks = IdleGateTasks
    /\ gateClock = GateStartTime
    /\ gateLog = EmptyGateLog
    /\ cooldownCall = NoCooldownCall
    /\ botConfig = DefaultOrchestratorRun
    /\ bot = NewBot

InitPoolRun ==
    /\ sinkKeypair \in BOOLEAN
    /\ config = DefaultConfig
    /\ botState = "constructed"
    /\ consecutiveFailures = 0
    /\ recentTrades = <<>>
    /\ initialSinkBalance = 0
    /\ checkCounter = 0
    /\ outcomes = <<>>
    /\ last = NoCheck
    /\ fresh = FALSE
    /\ funded = {}
    /\ fundingLocks = {}
    /\ calls = [c \in Calls |-> IdleCall]
    /\ chainBalance = [w \in Wallets |-> 0]
    /\ txs = <<>>
    /\ bwcConfig = [DefaultBwcConfig EXCEPT !.bwcMaxBurnerWallets = 1]
    /\ bwm = NewBurnerWalletManager
    /\ burnerTasks = IdleTasks
    /\ burnerWorld = FreshWorld
    /\ burnerLog = EmptyLog
    /\ rebalanceConfig = DefaultRebalanceConfig
    /\ rebalancer = NotRebalancing
    /\ pool = [balance |-> <<>>, sink |-> 0]
    /\ rebalanceLog = EmptyRebalanceLog
    /\ poolConfig \in PoolConfigChoices
    /\ walletFile \in PersistedRosters
    /\ wm = NewWalletManager
    /\ poolClock = PoolStartTime
    /\ poolTasks = IdlePoolTasks
    /\ poolLog = EmptyPoolLog
    /\ gateConfig = DefaultGateConfig
    /\ creation = NewCreationState
    /\ gateTasks = IdleGateTasks
    /\ gateClock = GateStartTime
    /\ gateLog = EmptyGateLog
    /\ cooldownCall = NoCooldownCall
    /\ botConfig = DefaultOrchestratorRun
    /\ bot = NewBot

InitGateRun ==
    /\ sinkKeypair \in BOOLEAN
    /\ config = DefaultConfig
    /\ botState = "constructed"
    /\ consecutiveFailures = 0
    /\ recentTrades = <<>>
    /\ initialSinkBalance = 0
    /\ checkCounter = 0
    /\ outcomes = <<>>
    /\ last = NoCheck
    /\ fresh = FALSE
    /\ funded = {}
    /\ fundingLocks = {}
    /\ calls = [c \in Calls |-> IdleCall]
    /\ chainBalance = [w \in Wallets |-> 0]
    /\ txs = <<>>
    /\ \E r \in GateRuns : gateConfig = r.gate /\ bwcConfig = r.bwc
    /\ bwm = NewBurnerWalletManager
    /\ burnerTasks = IdleTasks
    /\ burnerWorld = FreshWorld
    /\ burnerLog = EmptyLog
    /\ rebalanceConfig = DefaultRebalanceConfig
    /\ rebalancer = NotRebalancing
    /\ pool = [balance |-> <<>>, sink |-> 0]
    /\ rebalanceLog = EmptyRebalanceLog
    /\ poolConfig = DefaultPoolConfig
    /\ walletFile = <<>>
    /\ wm = NewWalletManager
    /\ poolClock = PoolStartTime
    /\ poolTasks = IdlePoolTasks
    /\ poolLog = EmptyPoolLog
    /\ creation = NewCreationState
    /\ gateTasks = IdleGateTasks
    /\ gateClock = GateStartTime
    /\ gateLog = EmptyGateLog
    /\ cooldownCall = NoCooldownCall
    /\ botConfig = DefaultOrchestratorRun
    /\ bot = NewBot

InitCooldownRun ==
    /\ sinkKeypair = FALSE
    /\ config = DefaultConfig
    /\ botState = "constructed"
    /\ consecutiveFailures = 0
    /\ recentTrades = <<>>
    /\ initialSinkBalance = 0
    /\ checkCounter = 0
    /\ outcomes = <<>>
    /\ last = NoCheck
    /\ fresh = FALSE
    /\ funded = {}
    /\ fundingLocks = {}
    /\ calls = [c \in Calls |-> IdleCall]
    /\ chainBalance = [w \in Wallets |-> 0]
    /\ txs = <<>>
    /\ bwcConfig = DefaultBwcConfig
    /\ bwm = NewBurnerWalletManager
    /\ burnerTasks = IdleTasks
    /\ burnerWorld = FreshWorld
    /\ burnerLog = EmptyLog
    /\ rebalanceConfig = DefaultRebalanceConfig
    /\ rebalancer = NotRebalancing
    /\ pool = [balance |-> <<>>, sink |-> 0]
    /\ rebalanceLog = EmptyRebalanceLog
    /\ poolConfig = DefaultPoolConfig
    /\ walletFile = <<>>
    /\ wm = NewWalletManager
    /\ poolClock = PoolStartTime
    /\ poolTasks = IdlePoolTasks
    /\ poolLog = EmptyPoolLog
    /\ gateConfig = DefaultGateConfig
    /\ creation = NewCreationState
    /\ gateTasks = IdleGateTasks
    /\ gateClock = GateStartTime
    /\ gateLog = EmptyGateLog
    /\ cooldownCall \in CooldownCalls
    /\ botConfig = DefaultOrchestratorRun
    /\ bot = NewBot

\* The bot after its constructor, for each run explored.
InitOrchestratorRun ==
    /\ config \in ConfigChoices
    /\ sinkKeypair \in BOOLEAN
    /\ botState = "constructed"
    /\ consecutiveFailures = 0
    /\ recentTrades = <<>>
    /\ initialSinkBalance = 0
    /\ checkCounter = 0
    /\ outcomes = <<>>
    /\ last = NoCheck
    /\ fresh = FALSE
    /\ funded = {}
    /\ fundingLocks = {}
    /\ calls = [c \in Calls |-> IdleCall]
    /\ chainBalance = [w \in Wallets |-> 0]
    /\ txs = <<>>
    /\ bwcConfig = DefaultBwcConfig
    /\ bwm = NewBurnerWalletManager
    /\ burnerTasks = IdleTasks
    /\ burnerWorld = FreshWorld
    /\ burnerLog = EmptyLog
    /\ rebalanceConfig = DefaultRebalanceConfig
    /\ rebalancer = NotRebalancing
    /\ pool = [balance |-> <<>>, sink |-> 0]
    /\ rebalanceLog = EmptyRebalanceLog
    /\ poolConfig = DefaultPoolConfig
    /\ walletFile = <<>>
    /\ wm = NewWalletManager
    /\ poolClock = PoolStartTime
    /\ poolTasks = IdlePoolTasks
    /\ poolLog = EmptyPoolLog
    /\ gateConfig = DefaultGateConfig
    /\ creation = NewCreationState
    /\ gateTasks = IdleGateTasks
    /\ gateClock = GateStartTime
    /\ gateLog = EmptyGateLog
    /\ cooldownCall = NoCooldownCall
    /\ botConfig \in OrchestratorRuns
    /\ bot = NewBot

SpecBreaker == InitBreakerRun /\ [][NextBreaker]_vars

SpecFunding == InitFundingRun /\ [][NextFunding]_vars

SpecTranches == InitTranchesRun /\ [][NextTranches]_vars

SpecBurner == InitBurnerRun /\ [][NextBurner]_vars

\* A step of the invocation (b, o) of disposeBurnerWallet after its first await.
DisposalStep(b, o) ==
    \/ WithdrawNothing(b, o)
    \/ WithdrawSend(b, o)
    \/ WithdrawThrows(b, o)
    \/ WithdrawConfirmed(b, o)
    \/ WithdrawConfirmThrows(b, o)

\* The burner manager under the scheduling of Node: a timer that was set
\* fires, and an awaited call of withdrawBurnerFunds settles (the RPC calls
\* resolve or reject, and confirmTransaction gives up when the blockhash
\* expires).
SpecBurnerFair ==
    /\ InitBurnerFairRun
    /\ [][NextBurner]_vars
    /\ \A b \in Burners : WF_vars(DisposalTimerFires(b))
    /\ \A b \in Burners : \A o \in Origins : WF_vars(DisposalStep(b, o))

\* getAvailableBurners returns burner b, among others, to the run loop.
ReturnsBurner(b) ==
    \E selected, stale \in SUBSET Burners :
        b \in selected /\ getAvailableBurners(selected, stale)

\* The run loop asks for burners.
AsksForBurners ==
    \E selected, stale \in SUBSET Burners : getAvailableBurners(selected, stale)

\* A step of the createBurnerWallet that ensureMinimumBurners awaits.
CreationStep ==
    \/ FundRefused
    \/ BurnerFundSend
    \/ BurnerFundSendThrows
    \/ BurnerFundConfirmed
    \/ BurnerFundConfirmThrows

\* The wallet cycle of burner b in the batch settles.
CycleSettles(b) == CycleCompletes(b) \/ CycleAborts(b)

\* The same with a fair run loop: the calls it awaits settle, it keeps
\* calling getAvailableBurners, and a burner that getAvailableBurners can
\* return whenever the loop asks is returned at some point (its cooldown
\* passes).  The loop is not bound to stop.
SpecBurnerLoopFair ==
    /\ InitBurnerFairRun
    /\ [][NextBurner]_vars
    /\ \A b \in Burners : WF_vars(DisposalTimerFires(b))
    /\ \A b \in Burners : \A o \in Origins : WF_vars(DisposalStep(b, o))
    /\ WF_vars(CreationStep)
    /\ WF_vars(AsksForBurners)
    /\ \A b \in Burners : WF_vars(CycleSettles(b))
    /\ \A b \in Burners : SF_vars(ReturnsBurner(b))

SpecRebalancer == InitRebalancerRun /\ [][NextRebalancer]_vars

SpecPool == InitPoolRun /\ [][NextPool]_vars

SpecGate == InitGateRun /\ [][NextGate]_vars

SpecCooldown == InitCooldownRun /\ [][NextCooldown]_vars

SpecOrchestrator == InitOrchestratorRun /\ [][NextOrchestrator]_vars

(***************************************************************************)
(* Part II: the claims about funding                                       *)
(***************************************************************************)
\* The invocations between lock acquisition and lock release for a wallet.
Holders(w) == {c \in Calls : calls[c].pc \notin {"idle", "done"} /\ calls[c].wallet = w}

TxsOfCall(c) == {i \in 1..Len(txs) : txs[i].call = c}

\* C1: for every wallet at most one fundSingleWallet invocation is between lock
\* acquisition and release, it holds the wallet's lock, and an invocation that
\* returned at the entry check (lock held, or funded) submitted no transfer.
C1_FundingIsExclusive ==
    /\ \A w \in Wallets : Cardinality(Holders(w)) <= 1
    /\ \A w \in Wallets : Holders(w) # {} => w \in fundingLocks
    /\ \A c \in Calls : calls[c].outcome = "skipped" => TxsOfCall(c) = {}

\* A second invocation found the lock held while the first has a transfer out.
C1_Witness ==
    \E c, d \in Calls :
        /\ calls[c].pc = "confirm"
        /\ calls[d].outcome = "skipped"
        /\ calls[d].wallet = calls[c].wallet
        /\ calls[c].wallet \notin funded

\* C2: fundingLocks holds no entry for a wallet that no invocation is funding:
\* whichever way an invocation returns (already funded, all parts attempted,
\* exception), its entry is gone.
C2_NoStaleLock ==
    /\ \A w \in fundingLocks : Holders(w) # {}
    /\ \A c \in Calls :
          (calls[c].pc = "done" /\ Holders(calls[c].wallet) = {})
             => calls[c].wallet \notin fundingLocks

\* An invocation threw, the lock was free again, and a later one completed.
C2_Witness ==
    \E c, d \in Calls :
        /\ calls[c].outcome = "threw"
        /\ calls[d].outcome = "completed"
        /\ calls[d].wallet = calls[c].wallet
        /\ calls[c].wallet \notin fundingLocks

\* The transfers of part `part` of invocation c that landed.
LandedFor(c, part) ==
    {i \in TxsOfCall(c) : txs[i].part = part /\ txs[i].status = "landed"}

\* C3 as stated: a part whose transfer landed (also after the timeout) is never
\* sent again, so the wallet receives each part at most once.
C3_EachPartAtMostOnce ==
    \A c \in Calls : \A part \in 0..3 : Cardinality(LandedFor(c, part)) <= 1

\* expected * 99 / 100 <= increase <= expected * 101 / 100
Within1Pct(increase, expected) ==
    /\ increase >= (expected * 99) \div 100
    /\ increase <= (expected * 101) \div 100

\* The parts the invocation has counted as delivered so far.
Delivered(r) == (FundAmount - r.balanceBN) - r.remaining

\* C4 as stated: the prior balance handed to verifyTransaction is the starting
\* balance plus the parts counted as delivered, and on the balance path a part
\* is classified as delivered exactly when the balance grew, since the part was
\* submitted, by an amount within 1% of the part.
C4_VerifiesAgainstBalanceBeforePart ==
    \A c \in Calls :
        LET r == calls[c]
        IN  /\ r.pc \in {"confirm", "status", "verifyBalance"} =>
                 r.priorBalance = r.balanceBN + Delivered(r)
            /\ r.pc = "verifyBalance" =>
                 (VerifiedByBalance(chainBalance[r.wallet], r.cappedPart, r.priorBalance)
                    <=> Within1Pct(chainBalance[r.wallet] - r.submitBalance, r.cappedPart))

\* The invocation c is past its balance check, inside the loop over the parts.
InPartLoop(c) == calls[c].pc \in {"send", "confirm", "status", "verifyBalance"}

\* C25: an invocation that is past the balance check ends only by marking the
\* wallet funded, after its parts have been attempted, whether or not parts
\* failed; and the remaining deficit goes down only by the amount of a part
\* whose transfer was confirmed or verified (by its status or by the balance).
C25_FundedAfterAllParts ==
    /\ [][\A c \in Calls :
            (InPartLoop(c) /\ calls'[c].pc = "done") =>
                /\ calls'[c].outcome = "completed"
                /\ calls[c].wallet \in funded']_vars
    /\ [][\A c \in Calls :
            (InPartLoop(c) /\ InPartLoop(c)' /\ calls'[c].remaining # calls[c].remaining) =>
                /\ calls'[c].remaining = calls[c].remaining - calls[c].cappedPart
                /\ \/ calls[c].pc \in {"confirm", "status"}
                         /\ txs[calls[c].sig].status = "landed"
                   \/ calls[c].pc = "verifyBalance"
                         /\ VerifiedByBalance(chainBalance[calls[c].wallet],
                                              calls[c].cappedPart, calls[c].priorBalance)]_vars

\* An invocation has marked its wallet funded after a part's transfer failed,
\* with the wallet still below the funded threshold.
C25_Witness ==
    \E c \in Calls :
        /\ calls[c].pc = "done"
        /\ calls[c].outcome = "completed"
        /\ calls[c].wallet \in funded
        /\ chainBalance[calls[c].wallet] < FundedThreshold
        /\ \E i \in TxsOfCall(c) : txs[i].status = "failed"

\* Every part of invocation c up to part `upTo` was sent exactly once and its
\* transfer landed: no part was retried, given up or skipped.
EveryTrancheConfirmed(c, upTo) ==
    /\ Cardinality(TxsOfCall(c)) = upTo + 1
    /\ \A part \in 0..upTo : Cardinality(LandedFor(c, part)) = 1

\* C34 as stated: when every tranche transfer of a funding attempt is confirmed,
\* the wallet's balance at the moment it is marked funded is at least the
\* funded threshold (80% of the fund amount), for every number of parts and
\* every split factor.
C34_FundedReachesThreshold ==
    [][\A c \in Calls :
          (/\ calls[c].pc = "confirm"
           /\ calls'[c].outcome = "completed"
           /\ EveryTrancheConfirmed(c, calls[c].p))
             => chainBalance'[calls[c].wallet] >= FundedThreshold]_vars

\* The transfers of earlier parts of invocation c that are neither landed nor
\* failed while a transfer of the current part is out.
UnresolvedEarlier(c) ==
    {i \in TxsOfCall(c) : txs[i].part < calls[c].p /\ txs[i].status = "pending"}

\* C36 as stated: within one funding attempt there are at most 4 parts, every
\* part is at least the minimum buffer and at most the remaining deficit, the
\* remaining deficit is never negative, the parts counted as delivered never
\* exceed the deficit measured at the start, and a part is submitted only after
\* the transfer of the previous part has resolved.
C36_TranchesSequentialAndBounded ==
    \A c \in Calls :
        LET r == calls[c]
        IN  InPartLoop(c) =>
              /\ r.parts <= 4 /\ r.p < r.parts
              /\ r.cappedPart >= MIN_SOL_BUFFER_LAMPORTS
              /\ r.cappedPart <= r.remaining
              /\ r.remaining >= 0
              /\ Delivered(r) >= 0
              /\ Delivered(r) <= FundAmount - r.balanceBN
              /\ r.pc = "confirm" => UnresolvedEarlier(c) = {}

(***************************************************************************)
(* Part I: the claims about the CircuitBreaker                             *)
(***************************************************************************)
IsPrefix(s, t) == Len(s) <= Len(t) /\ \A i \in 1..Len(s) : s[i] = t[i]

\* The length of the trailing run of failures of a sequence of outcomes.
RECURSIVE TrailingFailures(_)
TrailingFailures(s) ==
    IF s = <<>> \/ s[Len(s)] THEN 0
    ELSE 1 + TrailingFailures(SubSeq(s, 1, Len(s) - 1))

\* The last n elements of s (all of s when it is shorter).
LastN(s, n) == IF Len(s) <= n THEN s ELSE SubSeq(s, Len(s) - n + 1, Len(s))

FailuresIn(s) == Cardinality({i \in 1..Len(s) : ~s[i]})

\* failure, failure, failure, success, failure, failure, failure
C5Sequence == <<FALSE, FALSE, FALSE, TRUE, FALSE, FALSE, FALSE>>

\* The latest evaluate ran after the latest outcome of a prefix of C5Sequence,
\* with maxConsecutiveFailures = 3 and neither other condition triggering.
C5Scenario ==
    /\ config.enableCircuitBreaker
    /\ config.maxConsecutiveFailures = 3
    /\ fresh
    /\ Len(outcomes) >= 1
    /\ IsPrefix(outcomes, C5Sequence)
    /\ ~checkFailureRate.tripped
    /\ last.reason # "stop loss"

\* C5 as stated: along failure x3, success, failure x3 with maxConsecutiveFailures
\* = 3, evaluate is not tripped at any point before the last failure and is
\* tripped after it (the sixth failure).
C5_TripsOnlyAfterSixthFailure ==
    C5Scenario => (last.tripped <=> Len(outcomes) = Len(C5Sequence))

\* C5 amended: along that sequence evaluate is not tripped after the first and
\* the second failure and first returns tripped after the third failure, when
\* the streak reaches maxConsecutiveFailures = 3.
C5_TripsAfterThirdFailure ==
    (C5Scenario /\ Len(outcomes) <= 3) =>
        /\ last.tripped <=> Len(outcomes) = 3
        /\ last.tripped => last.reason = "consecutive failures"

C5_Witness ==
    /\ C5Scenario
    /\ outcomes = <<FALSE, FALSE, FALSE>>
    /\ last.tripped

C7_StreakIsTrailingFailures ==
    /\ consecutiveFailures = TrailingFailures(outcomes)
    /\ (outcomes # <<>> /\ outcomes[Len(outcomes)]) => consecutiveFailures = 0
    /\ checkConsecutiveFailures.tripped
         <=> TrailingFailures(outcomes) >= config.maxConsecutiveFailures
    /\ (fresh /\ config.enableCircuitBreaker) =>
         (last.reason = "consecutive failures"
            <=> TrailingFailures(outcomes) >= config.maxConsecutiveFailures)

\* A trip on a streak that started after a success.
C7_Witness ==
    /\ fresh
    /\ last.reason = "consecutive failures"
    /\ \E i \in 1..Len(outcomes) : outcomes[i]
    /\ consecutiveFailures = config.maxConsecutiveFailures

\* C8: the window never holds more than failureRateWindow entries and holds the
\* latest outcomes in order; the failure-rate condition does not trip before
\* failureRateWindow outcomes were recorded, and with a full window trips exactly
\* when failures / window size > maxFailureRate.
C8_FailureRateWindow ==
    /\ Len(recentTrades) <= config.failureRateWindow
    /\ recentTrades = LastN(outcomes, config.failureRateWindow)
    /\ Len(outcomes) < config.failureRateWindow => ~checkFailureRate.tripped
    /\ Len(outcomes) >= config.failureRateWindow =>
         (checkFailureRate.tripped
            <=> FailuresIn(LastN(outcomes, config.failureRateWindow)) * 100
                  > config.maxFailureRatePct * config.failureRateWindow)
    /\ (fresh /\ last.reason = "failure rate") =>
         /\ Len(outcomes) >= config.failureRateWindow
         /\ FailuresIn(LastN(outcomes, config.failureRateWindow)) * 100
              > config.maxFailureRatePct * config.failureRateWindow

\* The failure rate trips evaluate on a window that has already slid.
C8_Witness ==
    /\ fresh
    /\ last.reason = "failure rate"
    /\ Len(outcomes) > config.failureRateWindow
    /\ outcomes[1] # outcomes[Len(outcomes)]

\* What the latest drawdown check did, in the claim's own arithmetic.
C9_Throttle ==
    /\ last.queried =>
         /\ checkCounter % SINK_BALANCE_CHECK_INTERVAL = 0
         /\ checkCounter > 0
         /\ sinkKeypair
         /\ initialSinkBalance > 0
    /\ (last.checks = 3 /\ ~last.queried) =>
         \/ checkCounter % SINK_BALANCE_CHECK_INTERVAL # 0
         \/ ~sinkKeypair
         \/ initialSinkBalance = 0
    /\ last.checks = 3 =>
         (last.reason = "stop loss"
            <=> /\ last.queried
                /\ ((initialSinkBalance - last.current) * 10000) \div initialSinkBalance
                      > config.emergencyStopLossBps)
    /\ last.reason = "stop loss" => last.checks = 3

\* C9: the drawdown check queries the balance only on every K-th of its
\* invocations (K = 5, counted by checkCounter), compares it with the baseline
\* captured at startup, which no breaker operation modifies, and trips exactly
\* when ((baseline - current) * 10000) div baseline > the stop loss in basis points.
C9_DrawdownEveryKthAgainstBaseline ==
    /\ []C9_Throttle
    /\ [][botState = "running" => initialSinkBalance' = initialSinkBalance]_vars

\* A queried balance just under the integer threshold's next step: the loss
\* 30001 / 100000 is 3000 basis points, which does not exceed 3000.
C9_Witness ==
    /\ last.queried
    /\ checkCounter = SINK_BALANCE_CHECK_INTERVAL
    /\ initialSinkBalance = 100000
    /\ last.current = 69999
    /\ ~last.tripped

\* What the latest evaluate returned, against the conditions as they stand
\* (fresh: nothing was recorded since).
C10_FirstTripped ==
    (fresh /\ config.enableCircuitBreaker) =>
        /\ checkConsecutiveFailures.tripped =>
             /\ last.tripped /\ last.reason = "consecutive failures"
             /\ last.checks = 1 /\ ~last.queried
        /\ (~checkConsecutiveFailures.tripped /\ checkFailureRate.tripped) =>
             /\ last.tripped /\ last.reason = "failure rate"
             /\ last.checks = 2 /\ ~last.queried
        /\ (~checkConsecutiveFailures.tripped /\ ~checkFailureRate.tripped) =>
             /\ last.checks = 3
             /\ last.reason \in {"stop loss", ""}

\* C10: evaluate checks consecutive failures, failure rate, drawdown in this
\* order and returns the first reason that trips; when an earlier condition
\* trips, the drawdown check is not run: no balance query, and checkCounter is
\* not advanced (it advances by one exactly when all three checks ran).
C10_OrderAndShortCircuit ==
    /\ []C10_FirstTripped
    /\ [][/\ last'.checks < 3 => checkCounter' = checkCounter
          /\ checkCounter' # checkCounter =>
               last'.checks = 3 /\ checkCounter' = checkCounter + 1]_vars

\* Consecutive failures and failure rate both trip: the first is reported.
C10_Witness ==
    /\ fresh
    /\ checkConsecutiveFailures.tripped
    /\ checkFailureRate.tripped
    /\ last.reason = "consecutive failures"
    /\ checkCounter > 0

(***************************************************************************)
(* Part III: the claims about burner wallets                               *)
(***************************************************************************)
\* The lifetime transaction count of a tracked burner.
LifetimeCount(b) == MapGet(bwm.burnerTradeCount, b, 0)

\* C11: every tracked burner whose lifetime transaction count has reached
\* bwcBurnerLifetimeTxs is in pendingDisposal, after any sequence of uses,
\* cleanups and disposals.
C11_CapSchedulesDisposal ==
    \A b \in bwm.burnerWallets :
        LifetimeCount(b) >= bwcConfig.bwcBurnerLifetimeTxs => b \in bwm.pendingDisposal

\* A burner used exactly up to its cap is pending disposal, its timer set,
\* while another burner is still active.
C11_Witness ==
    \E b \in bwm.burnerWallets :
        /\ LifetimeCount(b) = bwcConfig.bwcBurnerLifetimeTxs
        /\ b \in bwm.pendingDisposal
        /\ b \in burnerTasks.timers
        /\ bwm.burnerWallets \ bwm.pendingDisposal # {}

\* C12 as stated: the lifetime transaction count of a tracked burner never
\* exceeds bwcBurnerLifetimeTxs.
C12_LifetimeWithinCap ==
    \A b \in bwm.burnerWallets : LifetimeCount(b) <= bwcConfig.bwcBurnerLifetimeTxs

\* C13 as stated: with a sink, the record of a burner leaves burnerWallets
\* only when the burner holds no more than the retained floor (its balance
\* above the floor has been transferred, or never was above it).
C13_DeletedOnlyAfterSweep ==
    [][\A b \in Burners :
          (sinkKeypair /\ b \in bwm.burnerWallets /\ b \notin bwm'.burnerWallets)
              => burnerWorld.balance[b] <= MinBurnerBalance]_vars

\* C14: between operations, every pubkey with a cooldown, a trade count, a
\* seasoning count or a pending disposal is a tracked burner; a disposal
\* therefore removes a pubkey from all five structures in one step.
C14_NeverHalfCleaned ==
    (DOMAIN bwm.burnerCooldowns) \cup (DOMAIN bwm.burnerTradeCount)
        \cup (DOMAIN bwm.burnerSeasoningCount) \cup bwm.pendingDisposal
            \subseteq bwm.burnerWallets

\* A burner that was used and pending has been disposed of by its timer, and
\* another burner is still tracked with its entries.
C14_Witness ==
    /\ bwm.stats.disposed >= 1
    /\ \E b \in burnerLog.used :
          /\ b \notin bwm.burnerWallets
          /\ b \notin burnerTasks.timers
    /\ \E b \in bwm.burnerWallets : b \in DOMAIN bwm.burnerTradeCount

\* C15: a burner whose funding failed is in none of the five structures once
\* createBurnerWallet has returned false, is not handed out by
\* getAvailableBurners afterwards, has never had a use counted, and
\* stats.created is what it was before the attempt.
C15_FailedCreationLeavesNoTrace ==
    /\ \A b \in Burners : burnerLog.outcome[b] = "failed" =>
          /\ b \notin bwm.burnerWallets
          /\ b \notin DOMAIN bwm.burnerCooldowns
          /\ b \notin DOMAIN bwm.burnerTradeCount
          /\ b \notin DOMAIN bwm.burnerSeasoningCount
          /\ b \notin bwm.pendingDisposal
          /\ b \notin burnerTasks.batch
          /\ b \notin burnerLog.used
    /\ ( /\ burnerTasks.create.pc = "none"
         /\ burnerLog.generated >= 1
         /\ burnerLog.outcome[burnerLog.generated] = "failed" )
       => bwm.stats.created = burnerLog.createdBefore

\* The latest creation failed, after an earlier one had succeeded.
C15_Witness ==
    /\ burnerTasks.create.pc = "none"
    /\ burnerLog.generated >= 2
    /\ burnerLog.outcome[burnerLog.generated] = "failed"
    /\ bwm.stats.created >= 1

\* C16 as stated: createBurnerWallet keeps a burner in the pool as funded only
\* if the confirmation of its funding transfer resolved.
C16_FundedOnlyIfConfirmed ==
    \A b \in Burners :
        burnerLog.outcome[b] = "active" => burnerLog.confirm[b] = "resolved"

\* The five tracking structures hold nothing.
AllStructuresEmpty(m) ==
    /\ m.burnerWallets = {}
    /\ DOMAIN m.burnerCooldowns = {}
    /\ DOMAIN m.burnerTradeCount = {}
    /\ DOMAIN m.burnerSeasoningCount = {}
    /\ m.pendingDisposal = {}

\* C29: emergencyDisposeAll starts a disposal of every burner tracked when it
\* is called (the burner is deleted at once, or its sweep is under way); once
\* it has returned the five structures are empty, whatever the sweeps did;
\* and a disposal timer that fires after that changes nothing in the manager.
C29_EmergencyDisposeAllClears ==
    /\ [](burnerTasks.loop = "stopped" => AllStructuresEmpty(bwm))
    /\ [][(burnerTasks.loop = "top" /\ burnerTasks'.loop = "stopping") =>
             \A b \in bwm.burnerWallets :
                 \/ b \notin bwm'.burnerWallets
                 \/ burnerTasks'.disposals[b]["emergency"].pc # "none"]_vars
    /\ [][(burnerTasks.loop = "stopped" /\ burnerTasks'.timers # burnerTasks.timers)
             => bwm' = bwm]_vars

\* emergencyDisposeAll has returned although a sweep did not go through (a
\* burner that was in the pool still holds more than the floor, with a sink
\* configured), and the timer of a burner is still to fire.
C29_Witness ==
    /\ burnerTasks.loop = "stopped"
    /\ sinkKeypair
    /\ burnerTasks.timers # {}
    /\ AllStructuresEmpty(bwm)
    /\ \E b \in Burners :
          /\ burnerLog.outcome[b] = "active"
          /\ burnerWorld.balance[b] > MinBurnerBalance

\* getAvailableBurners has just returned burners to the run loop.
BurnersReturned == burnerTasks.loop = "top" /\ burnerTasks'.loop = "batch"

\* C37 as stated: getAvailableBurners returns a burner only after
\* createBurnerWallet has returned for it and its funding transfer has landed;
\* a burner being created or funded is not returned.
C37_ReturnedOnlyWhenFunded ==
    [][BurnersReturned =>
          \A b \in burnerTasks'.batch :
              /\ burnerTasks.create.pubkey # b
              /\ burnerLog.outcome[b] = "active"
              /\ burnerWorld.fundTx[b] = "landed"]_vars

\* The invocations of disposeBurnerWallet for burner b whose sweep transfer is
\* submitted and neither landed nor dropped.
SweepsInFlight(b) == {o \in Origins : burnerTasks.disposals[b][o].tx = "pending"}

\* The burners that createBurnerWallet kept in the pool.
SuccessfullyCreated == {b \in Burners : burnerLog.outcome[b] = "active"}

\* C38 as stated: at most one sweep transfer from a burner is in flight at any
\* instant, stats.disposed counts each burner at most once, and it never
\* exceeds the number of burners successfully created.
C38_DisposedAtMostOnce ==
    /\ \A b \in Burners : Cardinality(SweepsInFlight(b)) <= 1
    /\ bwm.stats.disposed <= Cardinality(SuccessfullyCreated)
    /\ bwm.stats.disposed <= bwm.stats.created

\* Burner b is in none of the five tracking structures.
Untracked(b) ==
    /\ b \notin bwm.burnerWallets
    /\ b \notin DOMAIN bwm.burnerCooldowns
    /\ b \notin DOMAIN bwm.burnerTradeCount
    /\ b \notin DOMAIN bwm.burnerSeasoningCount
    /\ b \notin bwm.pendingDisposal

\* C39 as stated: with burner seasoning enabled, a burner that
\* createBurnerWallet kept in the pool with its funding landed is eventually
\* returned by getAvailableBurners, unless it leaves the pool first (the run
\* stops, or the burner is older than 24 hours).
C39_SeasonedEventually ==
    \A b \in Burners :
        ( /\ bwcConfig.enableBurnerSeasoning
          /\ burnerLog.outcome[b] = "active"
          /\ burnerWorld.fundTx[b] = "landed" )
            ~> (b \in burnerTasks.batch \/ Untracked(b))

\* C40: a burner that is pending disposal is eventually in none of the five
\* structures, whether its sweep goes through or not; while it is tracked it
\* stays pending and getAvailableBurners does not return it; and a timer is
\* set for a burner only at the moment the burner becomes pending, so once.
C40_PendingEventuallyDisposed ==
    /\ \A b \in Burners : (b \in bwm.pendingDisposal) ~> Untracked(b)
    /\ [][\A b \in bwm.pendingDisposal :
             b \in bwm'.burnerWallets => b \in bwm'.pendingDisposal]_vars
    /\ [][BurnersReturned => burnerTasks'.batch \cap bwm'.pendingDisposal = {}]_vars
    /\ [][\A b \in burnerTasks'.timers \ burnerTasks.timers :
             b \notin bwm.pendingDisposal /\ b \in bwm'.pendingDisposal]_vars

\* The timer of a pending burner has fired and the burner is gone from the
\* structures although, with a sink configured, it still holds more than the
\* floor: its sweep did not go through; the run loop is still running.
C40_Witness ==
    /\ sinkKeypair
    /\ burnerTasks.loop \in {"top", "batch"}
    /\ \E b \in burnerLog.used :
          /\ Untracked(b)
          /\ b \notin burnerTasks.timers
          /\ burnerTasks.disposals[b]["timer"].pc = "none"
          /\ burnerWorld.balance[b] > MinBurnerBalance
          /\ b \notin burnerWorld.aged

(***************************************************************************)
(* Part IV: the claims about the rebalancer                                *)
(***************************************************************************)
RECURSIVE SumSeq(_)
SumSeq(q) == IF q = <<>> THEN 0 ELSE Head(q) + SumSeq(Tail(q))

\* The configured target, floor and dust threshold, in the unit of the balances.
ConfiguredTarget == rebalanceConfig.targetWalletBalance

ConfiguredFloor == rebalanceConfig.minWalletBalance

ConfiguredDust == rebalanceConfig.dustThreshold

\* C17 as stated: every pairing transfers at most the lesser of the needy
\* wallet's deficit and the donor's surplus against the target, on the
\* snapshot balances; and with target 0.05 a batch of a needy wallet at 0.01
\* and a donor at 0.2 ends, every transfer succeeding, with the needy wallet
\* at 0.05 and the donor at 0.16.
C17_PairingWithinMin ==
    /\ \A i \in DOMAIN rebalanceLog.pairings :
          LET p == rebalanceLog.pairings[i] IN
          p.amount <= Min(ConfiguredTarget - p.needyBalance,
                          p.donorBalance - ConfiguredTarget)
    /\ ( /\ rebalancer.pc = "done"
         /\ ConfiguredTarget = 50
         /\ rebalanceLog.start = <<10, 200>>
         /\ rebalanceLog.allSucceeded )
       => pool.balance = <<50, 160>>

\* C18 as stated: when every transfer succeeds, each pairing transfers exactly
\* the lesser of the needy wallet's deficit and the donor's surplus, here
\* against the target the rebalancer itself works with.
C18_TransfersTheLesser ==
    rebalanceLog.allSucceeded =>
        \A i \in DOMAIN rebalanceLog.pairings :
            LET p == rebalanceLog.pairings[i] IN
            p.amount = Min(targetWalletBalanceLamports - p.needyBalance,
                           p.donorBalance - targetWalletBalanceLamports)

\* C19 as stated: after a rebalance in which every transfer succeeded, every
\* wallet that started below the floor holds at least the target, or no
\* wallet that started above 1.5 x target keeps a surplus of the dust
\* threshold or more.
C19_NeedyReachTargetOrDonorsExhausted ==
    (rebalancer.pc = "done" /\ rebalanceLog.allSucceeded) =>
        \A w \in DOMAIN pool.balance :
            rebalanceLog.start[w] < ConfiguredFloor =>
                \/ pool.balance[w] >= ConfiguredTarget
                \/ \A d \in DOMAIN pool.balance :
                      rebalanceLog.start[d] * 2 > ConfiguredTarget * 3 =>
                          pool.balance[d] - ConfiguredTarget < ConfiguredDust

C30_EveryExcessConsolidated ==
    (rebalancer.pc = "done" /\ sinkKeypair) =>
        /\ \A w \in DOMAIN rebalancer.walletBalances :
              LET excess == rebalancer.walletBalances[w] - targetWalletBalanceLamports IN
              rebalancer.walletBalances[w] * 10 > targetWalletBalanceLamports * 11 =>
                  \/ (excess * 90) \div 100 < dustThresholdLamports
                  \/ \E i \in DOMAIN rebalanceLog.sinkAttempts :
                        /\ rebalanceLog.sinkAttempts[i].wallet = w
                        /\ rebalanceLog.sinkAttempts[i].amount >= (excess * 90) \div 100
                        /\ rebalanceLog.sinkAttempts[i].amount <= excess
        /\ \A i \in DOMAIN rebalanceLog.sinkAttempts :
              LET a == rebalanceLog.sinkAttempts[i] IN
              /\ a.amount >= dustThresholdLamports
              /\ rebalancer.walletBalances[a.wallet] - a.amount >= targetWalletBalanceLamports

\* A transfer of the invocation, P2P or to the sink, has just failed.
TransferFailed == rebalanceLog'.failures > rebalanceLog.failures

\* The P2P loop and the consolidation have gone through their wallets.
RebalanceRanThrough ==
    /\ \/ rebalancer.needsFunding = <<>>
       \/ rebalancer.hasSurplus = <<>>
       \/ rebalancer.needyIndex > Len(rebalancer.needsFunding)
       \/ rebalancer.surplusIndex > Len(rebalancer.hasSurplus)
    /\ \/ rebalancer.remaining = <<>>
       \/ ~sinkKeypair
       \/ rebalancer.sinkIndex > Len(rebalancer.remaining)

\* C31: a failing P2P or consolidation transfer never ends the rebalance: the
\* tracked balances and the chain are left as they were and the loop moves to
\* the next needy wallet, or to the next wallet to consolidate; the invocation
\* rejects only before any transfer is attempted, and when it returns both the
\* P2P loop and the consolidation have gone through their wallets.
C31_FailedTransfersSkipped ==
    /\ [](rebalancer.pc = "threw" =>
             /\ rebalanceLog.pairings = <<>>
             /\ rebalanceLog.sinkAttempts = <<>>
             /\ rebalanceLog.failures = 0)
    /\ [](rebalancer.pc = "done" => RebalanceRanThrough)
    /\ [][TransferFailed =>
             /\ rebalancer'.walletBalances = rebalancer.walletBalances
             /\ pool' = pool
             /\ IF rebalancer.pc = "p2p"
                  THEN /\ rebalancer'.pc = "p2p"
                       /\ rebalancer'.needyIndex = rebalancer.needyIndex + 1
                  ELSE /\ rebalancer.pc = "sink"
                       /\ rebalancer'.pc \in {"sink", "done"}
                       /\ rebalancer'.sinkIndex = rebalancer.sinkIndex + 1]_vars

\* A rebalance has returned after a failed P2P transfer, a later P2P transfer
\* that succeeded, and a consolidation that failed.
C31_Witness ==
    /\ rebalancer.pc = "done"
    /\ rebalanceLog.failures >= 2
    /\ \E i, j \in DOMAIN rebalanceLog.pairings :
          /\ i < j
          /\ rebalanceLog.pairings[i].amount = 0
          /\ rebalanceLog.pairings[j].amount > 0
    /\ rebalanceLog.sinkAttempts # <<>>
    /\ pool.sink = 0

(***************************************************************************)
(* Part V: the claims about the wallet pool                                *)
(***************************************************************************)

\* C24: after loadOrGenerateWallets no two roster records have the same
\* public key, whatever the wallet file lists (also a file that lists an
\* identity more than once); the roster has at least the configured count
\* of records, and the records of the file keep their identity.
C24_RosterIdentitiesUnique ==
    poolTasks.loop # "constructed" =>
        /\ \A i, j \in DOMAIN wm.walletData :
               i # j => wm.walletData[i].pubkey # wm.walletData[j].pubkey
        /\ Len(wm.walletData) >= poolConfig.numWalletsToGenerate
        /\ \A i \in DOMAIN poolLog.persisted :
               /\ i \in DOMAIN wm.walletData
               /\ wm.walletData[i].pubkey = derivePubkey(poolLog.persisted[i].privateKey)

\* A loadActiveBatch call has just returned: the history holds it.
LoadReturned == poolTasks.loop = "top" /\ poolLog'.last.valid /\ poolLog' # poolLog

\* C21: loadActiveBatch returns at most batchSize wallets, all of the roster,
\* each with its cooldown elapsed (the time since its last use is no less
\* than the least cooldown it can draw) and seasoned when seasoning is
\* required, and no wallet twice.
C21_BatchWithinContract ==
    [][LoadReturned =>
        LET selected == poolLog'.last.selected
            Key(p)   == wm.walletData[selected[p]].pubkey
        IN  /\ Len(selected) <= poolConfig.batchSize
            /\ \A p \in DOMAIN selected :
                  /\ selected[p] \in DOMAIN wm.walletData
                  /\ poolClock - MapGet(wm.walletCooldowns, Key(p), 0)
                        >= getWalletCooldown(wm, Key(p), poolConfig.minWalletCooldownMs)
                  /\ poolConfig.enableSeasoning => wm.walletData[selected[p]].isSeasoned
            /\ \A p, q \in DOMAIN selected : p # q => Key(p) # Key(q)]_vars

\* C22: two loadActiveBatch calls at the same time with no markWalletUsed
\* between them find the same wallets eligible.
C22_SameCandidateSet ==
    (poolLog.prev.valid /\ poolLog.last.valid /\ poolLog.prev.time = poolLog.last.time)
        => poolLog.prev.ready = poolLog.last.ready

\* The cycle of position p ends in this step.
CycleEnds(p) == p \in poolTasks.running /\ p \notin poolTasks'.running

\* C23: a completed cycle marks its wallet exactly once and on the manager
\* that owns it only (the burner manager counts the actions of a burner, the
\* pool manager sets the time of use of a pool wallet to now and adds 1 to
\* its trade count); a cycle that is skipped or throws marks nothing, and no
\* count rises outside the end of one completed cycle.
C23_MarkedOncePerCycle ==
    [][/\ \A p \in poolTasks.running : CycleEnds(p) =>
            LET wallet == poolTasks.batch[p]
                key    == derivePubkey(wallet.keypair)
            IN  IF poolLog'.outcome # "completed" THEN wm' = wm /\ bwm' = bwm
                ELSE IF wallet.type = "burner"
                THEN /\ wm' = wm
                     /\ bwm'.burnerTradeCount[key] =
                            bwm.burnerTradeCount[key] + bwcConfig.numActionsPerCycle
                ELSE /\ bwm' = bwm
                     /\ wm'.walletCooldowns = MapSet(wm.walletCooldowns, key, poolClock)
                     /\ wm'.walletTradeCount =
                            MapSet(wm.walletTradeCount, key,
                                   MapGet(wm.walletTradeCount, key, 0) + 1)
       /\ (\/ \E k \in DOMAIN wm'.walletTradeCount :
                 wm'.walletTradeCount[k] # MapGet(wm.walletTradeCount, k, 0)
           \/ \E b \in DOMAIN bwm.burnerTradeCount :
                 bwm'.burnerTradeCount[b] > bwm.burnerTradeCount[b])
          => /\ poolLog'.outcome = "completed"
             /\ Cardinality({p \in poolTasks.running : CycleEnds(p)}) = 1]_vars

\* A pool wallet and a burner were both marked at the current time, in a
\* batch of which another cycle was skipped.
C23_Witness ==
    /\ \E k \in DOMAIN wm.walletTradeCount :
          wm.walletTradeCount[k] >= 1 /\ MapGet(wm.walletCooldowns, k, 0) = poolClock
    /\ \E b \in bwm.burnerWallets : bwm.burnerTradeCount[b] > 0
    /\ poolLog.outcome = "aborted"

\* C33: after the pruning pass of loadActiveBatch at the time now, every
\* wallet that has an entry in the cooldown map or in the trade-count map
\* was last used within MAX_COOLDOWN_AGE_MS (24 hours) of now.
C33_MapsPrunedByAge ==
    poolLog.last.valid /\ poolLog.last.time = poolClock =>
        \A k \in DOMAIN wm.walletCooldowns \cup DOMAIN wm.walletTradeCount :
            /\ k \in DOMAIN wm.walletCooldowns
            /\ poolClock - wm.walletCooldowns[k] <= MAX_COOLDOWN_AGE_MS

(***************************************************************************)
(* Part VI claims: the creation gate and the selection of burners          *)
(***************************************************************************)

\* A step in which an ensureMinimumBurners invocation begins.
EnsureInvoked == gateLog'.gate # "none"

\* A step in which a createBurnerWallet call of the loop starts and ends.
CreationStarted == gateLog'.create # "none"

\* C26: each ensureMinimumBurners invocation starts at most
\* min(target pool size - active burners, 2) burner creations: the loop it
\* enters runs for that many iterations, a creation is an iteration of the
\* loop that has iterations left, and the invocation enters no loop when the
\* active count is at or above the target, when there is no relayer, or when
\* less than the creation interval has passed since the previous creation
\* check.
C26_CreationsRateLimited ==
    [][ /\ EnsureInvoked =>
            LET activeCount == getActiveBurnerCount(bwm)
                targetCount == bwcConfig.bwcMaxBurnerWallets
            IN  /\ gateTasks'.ensure.pc = "loop" =>
                      /\ gateTasks'.ensure.i = 0
                      /\ gateTasks'.ensure.toCreate = Min(targetCount - activeCount, 2)
                /\ \/ activeCount >= targetCount
                   \/ gateConfig.relayerKeypairs = 0
                   \/ gateClock - creation.lastCreationCheck
                          < gateConfig.bwcBurnerCreationInterval
                   => /\ gateTasks'.ensure.pc = "idle"
                      /\ bwm' = bwm
        /\ CreationStarted =>
              /\ gateTasks.ensure.pc = "loop"
              /\ gateTasks.ensure.i < gateTasks.ensure.toCreate
              /\ gateTasks'.ensure.pc = "loop" =>
                    /\ gateTasks'.ensure.i = gateTasks.ensure.i + 1
                    /\ gateTasks'.ensure.toCreate = gateTasks.ensure.toCreate
        /\ bwm'.stats.created > bwm.stats.created => CreationStarted
      ]_vars

\* An invocation that found a deficit of 3 burners has started its second
\* creation, the last it may start.
C26_Witness ==
    /\ bwcConfig.bwcMaxBurnerWallets - getActiveBurnerCount(bwm) > 2
    /\ gateTasks.ensure.pc = "loop"
    /\ gateTasks.ensure.toCreate = 2
    /\ gateTasks.ensure.i = 1
    /\ gateLog.create = "failure"

\* The failure counter is at its maximum.
AtMaximum == creation.consecutiveFundingFailures >= maxFundingFailures

\* C27: the burner-creation breaker.  A creation that fails adds 1 to the
\* failure counter and one that succeeds resets it to 0, and nothing else
\* changes the counter but the reset at the pause gate.  While the counter is
\* at the maximum no creation starts, and an ensureMinimumBurners invocation
\* before the pause deadline changes nothing: it creates no burner (the
\* funding transfer is part of a creation) and enters no loop.  The first
\* invocation at or after the deadline resets the
\* counter to 0 and, when the pool is below its target and a relayer
\* exists, enters the creation loop.  Whenever the counter is at the maximum
\* it is exactly the maximum and the deadline is the pause after the
\* creation check that reached it.
C27_CreationBreaker ==
    /\ [](AtMaximum =>
            /\ creation.consecutiveFundingFailures = maxFundingFailures
            /\ creation.creationPausedUntil
                   = creation.lastCreationCheck + CREATION_PAUSE
            /\ gateTasks.ensure.pc = "idle")
    /\ [][ /\ gateLog'.create = "success" =>
                  creation'.consecutiveFundingFailures = 0
           /\ gateLog'.create = "failure" =>
                  creation'.consecutiveFundingFailures
                      = creation.consecutiveFundingFailures + 1
           /\ CreationStarted => ~AtMaximum
           /\ creation'.consecutiveFundingFailures # creation.consecutiveFundingFailures
                  => \/ CreationStarted
                     \/ EnsureInvoked /\ AtMaximum
                                      /\ gateClock >= creation.creationPausedUntil
           /\ EnsureInvoked /\ AtMaximum /\ gateClock < creation.creationPausedUntil
                  => UNCHANGED <<bwm, creation, gateTasks>>
           /\ EnsureInvoked /\ AtMaximum /\ gateClock >= creation.creationPausedUntil
                  => /\ creation'.consecutiveFundingFailures = 0
                     /\ /\ getActiveBurnerCount(bwm) < bwcConfig.bwcMaxBurnerWallets
                        /\ gateConfig.relayerKeypairs > 0
                        => gateTasks'.ensure.pc = "loop"
         ]_vars

\* Ten creations in a row failed, the pause went by, and the first
\* invocation after the deadline has reset the counter and entered the
\* creation loop.
C27_Witness ==
    /\ gateLog.gate = "creating"
    /\ creation.consecutiveFundingFailures = 0
    /\ creation.creationPausedUntil = creation.lastCreationCheck + CREATION_PAUSE
    /\ creation.lastCreationCheck > 0
    /\ gateClock >= creation.creationPausedUntil
    /\ gateTasks.ensure.pc = "loop"

\* A step in which getAvailableBurners is called and returns.
AvailableReturned == gateLog'.call.valid

\* C28: every burner that getAvailableBurners(count, emergencyMode) returns
\* is held by the manager and not pending disposal, the least cooldown it
\* can draw has passed since its last use, its transaction count is below
\* bwcBurnerLifetimeTxs and, with burner seasoning on, its seasoning count
\* is at least burnerSeasoningMinTxs; the number returned is at most count
\* and at most ceil(count * ratio), with the emergency ratio under the
\* emergency flag and the normal ratio otherwise; nothing is returned when
\* burner churning is off.
C28_AvailableBurnersFiltered ==
    [][ AvailableReturned =>
          LET call   == gateLog'.call
              ratio  == IF call.emergencyMode
                        THEN gateConfig.bwcEmergencyBurnerRatio
                        ELSE gateConfig.bwcBurnerRatio
              n      == Cardinality(call.result)
          IN  /\ \A b \in call.result :
                    /\ b \in bwm.burnerWallets
                    /\ b \notin bwm.pendingDisposal
                    /\ gateClock - MapGet(bwm.burnerCooldowns, b, 0)
                           >= (10 * (10 + MapGet(bwm.burnerTradeCount, b, 0))) \div 10
                    /\ MapGet(bwm.burnerTradeCount, b, 0) < bwcConfig.bwcBurnerLifetimeTxs
                    /\ bwcConfig.enableBurnerSeasoning =>
                           MapGet(bwm.burnerSeasoningCount, b, 0)
                               >= bwcConfig.burnerSeasoningMinTxs
              /\ n <= call.count
              /\ n = 0 \/ (n - 1) * 100 < call.count * ratio
              /\ ~gateConfig.bwcEnabled \/ gateConfig.bwcMode = "disabled"
                     => call.result = {}
      ]_vars

\* Two burners pass the filter, one of them used before and past its
\* cooldown, 2 are asked for without the emergency flag, and the ratio of
\* 0.3 lets one of them through.
C28_Witness ==
    /\ gateLog.call.valid
    /\ gateLog.call.count = 2
    /\ ~gateLog.call.emergencyMode
    /\ Cardinality(gateLog.call.result) = 1
    /\ Cardinality(Eligible(bwm)) = 2
    /\ \E b \in Eligible(bwm) :
          /\ MapGet(bwm.burnerTradeCount, b, 0) > 0
          /\ gateClock - MapGet(bwm.burnerCooldowns, b, 0) >= 24
    /\ \E b \in Eligible(bwm) : MapGet(bwm.burnerCooldowns, b, 0) = 0

(***************************************************************************)
(* Part VII claims: the cooldown and the trade count                       *)
(***************************************************************************)

\* C32: for the same base cooldown and trade counts a < b, getWalletCooldown
\* gives a cooldown for a that is at most the cooldown for b.
C32_CooldownNonDecreasing ==
    cooldownCall.cooldowns # <<>> =>
        cooldownCall.cooldowns[1] <= cooldownCall.cooldowns[2]

(***************************************************************************)
(* Part VIII claims: the run loop                                          *)
(***************************************************************************)

\* The steps of the shutdown that the configuration calls for: the disposal
\* of the burners when they are enabled, the withdrawal when a sink exists.
ShutdownPerformed ==
    /\ botConfig.bwcEnabled => "dispose" \in bot.shutdown
    /\ sinkKeypair => "withdraw" \in bot.shutdown

\* The run is over: the process has exited, or runLoop has returned or rejected.
RunOver == bot.pc \in {"exited", "returned", "rejected"}

\* The first half of C35: a batch is handed over only after an evaluation of
\* the breaker that returned not-tripped in the same iteration, and once an
\* evaluation has returned tripped no batch is selected, no wallet cycle is
\* started and no rebalance is run.
BatchOnlyAfterClearEvaluation ==
    /\ [][bot'.pc = "batch" /\ bot.pc # "batch"
             => bot.evaluation = "clear" /\ last.tripped = FALSE /\ fresh]_vars
    /\ [](bot.pc \in {"select", "batch", "rebalance"} => bot.evaluation = "clear")
    /\ [](bot.tripped => ~bot.isRunning /\ bot.pc \notin {"top", "select", "batch", "rebalance"})
    /\ [][bot.tripped => /\ bot'.cycleCount = bot.cycleCount
                         /\ outcomes' = outcomes
                         /\ checkCounter' = checkCounter]_vars

\* C35: in the run loop every batch handed to the trading strategy is
\* preceded, in the same iteration, by an evaluation of the circuit breaker
\* that returned not-tripped; after an evaluation returns tripped the run
\* stops: no further batch is selected, no wallet cycle is started, no
\* rebalance is run, and the shutdown (disposal of the burners, withdrawal)
\* is performed.
C35_TrippedStopsAndShutsDown ==
    /\ BatchOnlyAfterClearEvaluation
    /\ [](bot.tripped /\ RunOver => ShutdownPerformed)

====
